---- MODULE Spec2Model ----
(***************************************************************************)
(* A model of the encrypted-storage engine of gocryptfs (extimsu fork):    *)
(* the content codec (internal/contentenc), the parallel driver            *)
(* (internal/parallelcrypto) and the password KDF parameter validation     *)
(* (internal/configfile).                                                  *)
(*                                                                         *)
(* Bytes are integers 0..255 and byte strings are sequences.  IV, tag and  *)
(* file-ID lengths are the program's; only the plaintext block size is     *)
(* scaled down (MaxBS), since the code is parametric in it.                *)
(*                                                                         *)
(* The AEAD itself (cryptoCore.AEADCipher) is modelled as the ideal        *)
(* functionality of spec section 4.1: Open accepts exactly what Seal       *)
(* produced under the same key, nonce and associated data.  The nonce      *)
(* generator hands out fresh, never all-zero nonces.                       *)
(***************************************************************************)
EXTENDS Integers, Sequences, FiniteSets, TLC

VARIABLES
    \* ---- shared codec state (ContentEnc, CryptoCore)
    plainBS,      \* be.plainBS
    aeadKey,      \* the content purpose key held by be.cryptoCore
    nonceCtr,     \* state of be.cryptoCore.IVGenerator: nonces handed out
    sealed,       \* every (key, nonce, aData, body||tag) the AEAD has sealed
    \* ---- one block: EncryptBlock, the backing store, DecryptBlock
    bpc, bPlain, bBlockNo, bFileID, bCt, bTamper, dBlockNo, dFileID, bRes,
    \* ---- a block group: EncryptBlocks, the backing store, DecryptBlocks
    gpc, gMode, gPlain, gFirstBlockNo, gFileID, cpuCount, shards,
    ciphertextBlocks, ciphertext, gTampered, plainBlocks, decryptErr, gRes,
    poolOut,      \* buffers taken from be.pBlockPool / be.PReqPool and not put back
    \* ---- the parallel driver on its own
    drvPc, drvImpl, drvEnabled, drvCPU, drvN, drvWorkers, drvShards, drvWg,
    drvCall, drvMode,
    \* ---- key derivation
    kdfPc, kdf, kdfOut,
    \* ---- filename authentication
    faPc, faEnabled, faKey, faName, faAuth, faIn, faTamper, faRes,
    \* ---- the config store: a rewrite of the envelope
    cfgPc,        \* step of the write protocol reached
    cfgOld,       \* the envelope stored before the rewrite
    cfgNew,       \* the envelope being written
    cfgDest,      \* what a reader of the destination sees
    cfgTmp,       \* contents of the temporary file (empty when there is none)
    cfgDisk,      \* what the medium holds: the state after a crash
    cfgRenamed,   \* the rename has completed
    cfgAt,        \* the step at which the rewrite failed or the machine crashed
    \* ---- the write buffer
    wbPc, wbEnabled, wbConfig, wbBuffer, wbOffset, wbLastWriteTime, wbNow,
    wbArg, wbPre, wbCalls, wbRet,
    \* ---- calls of EncryptBlock and EncryptBlockNonce on one ContentEnc
    encPc,        \* "ready", or "panicked" once a call has aborted the process
    AEADBackend,  \* be.cryptoCore.AEADBackend
    encCalls,     \* the calls made: function, nonce, output, panic message
    \* ---- the write buffer manager: Write calls and Close
    mgrPc,        \* Close: "open", "closing" (wbm.Mutex held), "closed"
    mgrTodo,      \* the entries of wbm.Buffers Close has still to visit
    mgrBuffers,   \* wbm.Buffers: file ID -> buffer object (0: no entry)
    mgrHeap,      \* the WriteBuffer objects created so far
    mgrWriters,   \* the goroutines calling wbm.Write
    mgrStats,     \* bytes accepted by Write calls, bytes passed to the callback
    \* ---- cryptocore: the adaptive prefetcher
    apPrefetchSize,      \* ap.prefetchSize
    apRequestCount,      \* ap.requestCount
    apProfilingEnabled,  \* ap.profilingEnabled
    apBuf,               \* the number of unread bytes of ap.buf
    apRefill,            \* ap.refill: the lengths of the slices in the channel
    apStop,              \* ap.stop has been closed
    apMutex,             \* the reader holding ap.mutex, 0 if none
    apReaders,           \* the goroutines calling Read
    apRefillWorker,      \* the refill goroutine: position and loaded size
    apProfilingWorker,   \* the profiling goroutine: "run" or "done"
    apLast,              \* the last call that stored ap.prefetchSize
    apPanic,             \* the log.Panicf message, "none" if there was none
    \* ---- memprotect: LockMemory
    mpPlatform,      \* the build: "linux" or "other"
    mpEnabled,       \* mp.enabled
    mpLockedPages,   \* mp.lockedPages
    mpKernelLocked,  \* the regions the kernel holds locked
    mpCall,          \* the last call: operation, region, syscall outcomes, result
    \* ---- ctlsocksrv: the control socket server
    ctlPlatform,     \* the build: "linux", "darwin" or "other"
    ctlConn,         \* the connection being handled: state and its peer
    ctlRateLimiter,  \* ch.rateLimiter: client identifier -> entry
    ctlNow,          \* the clock, in minutes
    ctlWindow,       \* requests that passed the rate limit in the previous and this minute
    ctlHandled,      \* the number of reads made by handleConnection
    ctlLast,         \* what the last step of handleConnection did
    \* ---- contentenc: MergeBlocks
    mbPc,            \* "ready" before the call, "done" after it
    mbArgs,          \* oldData, newData, offset
    mbOut,           \* the block returned, or the panic
    \* ---- writecoalescing: a file written through one WriteBuffer
    wsPc,            \* "open" after a Write, "flushed" after Flush or Close
    wsEnabled,       \* Config.Enabled
    wsBuffer,        \* wb.Buffer
    wsOffset,        \* wb.Offset
    wsWrites,        \* the (data, offset) of every Write, in issue order
    wsCalls,         \* the (data, offset) of every callback, in call order
    \* ---- cryptocore: the optimized AEAD backends
    obBackend,       \* "optimized" (OptimizedBackend) or "simd" (SIMDOptimizedGCM)
    obArch,          \* runtime.GOARCH
    obSealed,        \* what Seal has returned, with the nonce it was called with
    obLast,          \* the last call
    \* ---- cryptocore: SecureZero
    szPc,            \* "ready" before the call, "done" after it, "fault" if it faulted
    szMem,           \* the mapped memory around buf, byte by byte
    szPre,           \* the same before the call
    szBuf            \* buf: the index before its first byte, and its length

sharedVars == <<plainBS, aeadKey, nonceCtr, sealed>>
blockVars  == <<bpc, bPlain, bBlockNo, bFileID, bCt, bTamper, dBlockNo, dFileID, bRes>>
groupVars  == <<gpc, gMode, gPlain, gFirstBlockNo, gFileID, cpuCount, shards,
                ciphertextBlocks, ciphertext, gTampered, plainBlocks, decryptErr, gRes,
                poolOut>>
drvVars    == <<drvPc, drvImpl, drvEnabled, drvCPU, drvN, drvWorkers, drvShards, drvWg,
                drvCall, drvMode>>
kdfVars    == <<kdfPc, kdf, kdfOut>>
\* the subsystems further down: filename authentication, the config file,
\* the write buffer
faVars     == <<faPc, faEnabled, faKey, faName, faAuth, faIn, faTamper, faRes>>
cfgVars    == <<cfgPc, cfgOld, cfgNew, cfgDest, cfgTmp, cfgDisk, cfgRenamed, cfgAt>>
wbVars     == <<wbPc, wbEnabled, wbConfig, wbBuffer, wbOffset, wbLastWriteTime, wbNow,
                wbArg, wbPre, wbCalls, wbRet>>
encVars    == <<encPc, AEADBackend, encCalls>>
mgrVars    == <<mgrPc, mgrTodo, mgrBuffers, mgrHeap, mgrWriters, mgrStats>>
\* the subsystems after these, and the same without one of them
apVars     == <<apPrefetchSize, apRequestCount, apProfilingEnabled, apBuf, apRefill,
                apStop, apMutex, apReaders, apRefillWorker, apProfilingWorker,
                apLast, apPanic>>
mpVars     == <<mpPlatform, mpEnabled, mpLockedPages, mpKernelLocked, mpCall>>
ctlVars    == <<ctlPlatform, ctlConn, ctlRateLimiter, ctlNow, ctlWindow, ctlHandled, ctlLast>>
mbVars     == <<mbPc, mbArgs, mbOut>>
wsVars     == <<wsPc, wsEnabled, wsBuffer, wsOffset, wsWrites, wsCalls>>
obVars     == <<obBackend, obArch, obSealed, obLast>>
szVars     == <<szPc, szMem, szPre, szBuf>>
restVars   == <<mgrVars, apVars, mpVars, ctlVars, mbVars, wsVars, obVars, szVars>>
restNotMgr == <<apVars, mpVars, ctlVars, mbVars, wsVars, obVars, szVars>>
restNotAp  == <<mgrVars, mpVars, ctlVars, mbVars, wsVars, obVars, szVars>>
restNotMp == <<mgrVars, apVars, ctlVars, mbVars, wsVars, obVars, szVars>>
restNotCtl == <<mgrVars, apVars, mpVars, mbVars, wsVars, obVars, szVars>>
restNotMb == <<mgrVars, apVars, mpVars, ctlVars, wsVars, obVars, szVars>>
restNotWs == <<mgrVars, apVars, mpVars, ctlVars, mbVars, obVars, szVars>>
restNotOb == <<mgrVars, apVars, mpVars, ctlVars, mbVars, wsVars, szVars>>
restNotSz == <<mgrVars, apVars, mpVars, ctlVars, mbVars, wsVars, obVars>>
coreVars   == <<sharedVars, blockVars, groupVars, drvVars, kdfVars>>
midVars    == <<faVars, cfgVars, wbVars, encVars>>
auxVars    == <<faVars, cfgVars, wbVars, encVars, restVars>>
vars       == <<sharedVars, blockVars, groupVars, drvVars, kdfVars, auxVars>>

----------------------------------------------------------------------------
(* Bounds of the model *)

\* plaintext block sizes checked are MaxBS-1 and MaxBS (scaled from 4096..65536)
MaxBS == 3
\* a block group holds at most MaxBlocks full blocks, plus a partial last one
MaxBlocks == 4
\* CPUs of the machine the codec runs on: 1..MaxCodecCPU
MaxCodecCPU == 2
\* CPUs and group sizes tried on the driver alone
MaxDrvCPU == 12
MaxDrvBlocks == 18
\* encrypted file names have up to MaxNameLen characters
MaxNameLen == 2
\* a serialized config envelope has up to MaxEnvLen bytes
MaxEnvLen == 4
\* calls of EncryptBlock / EncryptBlockNonce made on one ContentEnc
MaxEncCalls == 3
\* the write buffer's configuration, scaled down from 1024 bytes, 10 ms and
\* 64 KiB: Config.Threshold, Config.Timeout (in clock ticks), Config.MaxSize
Threshold == 3
Timeout == 2
MaxSize == 4
\* the clock of the write buffer runs from 0 to MaxWbClock
MaxWbClock == 3
\* goroutines calling WriteBufferManager.Write
MaxWriters == 2
\* bytes of mapped memory around the buffer of SecureZero
MaxMem == 4
\* ciphertexts sealed by one optimized backend
MaxObSeals == 2
\* Writes made to the one WriteBuffer of a file
MaxWsWrites == 3
\* the clock of the control socket server, and the reads it makes
MaxCtlClock == 3
MaxCtlRequests == 4
\* entries of MemoryProtection.lockedPages
MaxLockedPages == 3

(* Program constants *)

IVLen == 16
AuthTagLen == 16
headerIDLen == 16
lenUint64 == 8

----------------------------------------------------------------------------
(* Byte strings *)

Zeros(n) == [i \in 1..n |-> 0]

IsAllZero(s) == \A i \in 1..Len(s) : s[i] = 0

Pow2(k) == 2 ^ k

\* the byte b with bit k (0 = least significant) inverted
FlipBitOfByte(b, k) ==
    IF (b \div Pow2(k)) % 2 = 1 THEN b - Pow2(k) ELSE b + Pow2(k)

FlipBit(s, pos, k) == [s EXCEPT ![pos] = FlipBitOfByte(s[pos], k)]

\* s[lo:hi] of Go: 0-based, hi exclusive
Slice(s, lo, hi) == SubSeq(s, lo + 1, hi)

Min(a, b) == IF a < b THEN a ELSE b
Max(a, b) == IF a > b THEN a ELSE b

RECURSIVE Concat(_)
Concat(ss) == IF ss = <<>> THEN <<>> ELSE Head(ss) \o Concat(Tail(ss))

\* binary.BigEndian.PutUint64 into a buffer of n bytes
RECURSIVE PutUintBE(_, _)
PutUintBE(v, n) ==
    IF n = 0 THEN <<>> ELSE PutUintBE(v \div 256, n - 1) \o <<v % 256>>

NoErr        == "nil"
ErrShort     == "block is too short"
ErrZeroNonce == "all-zero nonce"
ErrAuth      == "cipher: message authentication failed"

----------------------------------------------------------------------------
(* The AEAD and the nonce generator of cryptoCore *)

\* IVGenerator.Get(): the c-th nonce handed out.  Fresh for every c and
\* never all-zero.
NonceOf(c) == [i \in 1..IVLen |-> (c * 29 + i * 53) % 256]

KeyStream(key, nonce, i) == (key * 7 + nonce[1] + 3 * nonce[IVLen] + i * 13) % 256

\* AEADCipher.Seal(dst, nonce, plaintext, aData) without dst: body || tag
AEADSeal(key, nonce, plaintext, aData) ==
    [i \in 1..Len(plaintext) |-> (plaintext[i] + KeyStream(key, nonce, i)) % 256]
    \o [j \in 1..AuthTagLen |->
           (key + nonce[j] + aData[((j - 1) % Len(aData)) + 1] + Len(plaintext) + j) % 256]

SealRec(key, nonce, aData, ct) == [key |-> key, nonce |-> nonce, ad |-> aData, ct |-> ct]

\* AEADCipher.Open(dst, nonce, ciphertext, aData): plaintext or an
\* authentication failure.  oracle is what has been sealed so far.
AEADOpen(oracle, key, nonce, ct, aData) ==
    IF SealRec(key, nonce, aData, ct) \in oracle
    THEN [pt  |-> [i \in 1..(Len(ct) - AuthTagLen) |->
                      (ct[i] + 256 - KeyStream(key, nonce, i)) % 256],
          err |-> NoErr]
    ELSE [pt |-> <<>>, err |-> ErrAuth]

----------------------------------------------------------------------------
(* contentenc: one block *)

cipherBS == plainBS + IVLen + AuthTagLen

BlockOverhead == cipherBS - plainBS

NilFileID == <<>>

concatAD_NoFileID(blockNo, fileID) == PutUintBE(blockNo, lenUint64)

concatAD_FileIDFirst(blockNo, fileID) == fileID \o PutUintBE(blockNo, lenUint64)

\* aData = [blockNo.bigEndian fileID]
concatAD(blockNo, fileID) == PutUintBE(blockNo, lenUint64) \o fileID

\* the output is nonce + ciphertext + tag; an empty block stays empty
doEncryptBlock(plaintext, blockNo, fileID, nonce) ==
    IF Len(plaintext) = 0 THEN plaintext
    ELSE nonce \o AEADSeal(aeadKey, nonce, plaintext, concatAD(blockNo, fileID))

\* what the AEAD has sealed once doEncryptBlock has run
SealedBy(oracle, plaintext, blockNo, fileID, nonce) ==
    IF Len(plaintext) = 0 THEN oracle
    ELSE oracle \cup
         {SealRec(aeadKey, nonce, concatAD(blockNo, fileID),
                  AEADSeal(aeadKey, nonce, plaintext, concatAD(blockNo, fileID)))}

\* EncryptBlock draws the nonce with number c from the generator
EncryptBlock(plaintext, blockNo, fileID, c) ==
    doEncryptBlock(plaintext, blockNo, fileID, NonceOf(c))

DecryptBlock_NoHole(ct, blockNo, fileID) ==
    IF Len(ct) = 0 THEN [pt |-> ct, err |-> NoErr, ad |-> <<>>]
    ELSE IF Len(ct) < IVLen THEN [pt |-> <<>>, err |-> ErrShort, ad |-> <<>>]
    ELSE IF Slice(ct, 0, IVLen) = Zeros(IVLen)
         THEN [pt |-> <<>>, err |-> ErrZeroNonce, ad |-> <<>>]
    ELSE LET o == AEADOpen(sealed, aeadKey, Slice(ct, 0, IVLen),
                           Slice(ct, IVLen, Len(ct)), concatAD(blockNo, fileID))
         IN  [pt |-> o.pt, err |-> o.err, ad |-> concatAD(blockNo, fileID)]

\* compares the block with a prefix of allZeroBlock
DecryptBlock_AnyZeroIsHole(ct, blockNo, fileID) ==
    IF Len(ct) = 0 THEN [pt |-> ct, err |-> NoErr, ad |-> <<>>]
    ELSE IF IsAllZero(ct) THEN [pt |-> Zeros(plainBS), err |-> NoErr, ad |-> <<>>]
    ELSE IF Len(ct) < IVLen THEN [pt |-> <<>>, err |-> ErrShort, ad |-> <<>>]
    ELSE IF Slice(ct, 0, IVLen) = Zeros(IVLen)
         THEN [pt |-> <<>>, err |-> ErrZeroNonce, ad |-> <<>>]
    ELSE LET o == AEADOpen(sealed, aeadKey, Slice(ct, 0, IVLen),
                           Slice(ct, IVLen, Len(ct)), concatAD(blockNo, fileID))
         IN  [pt |-> o.pt, err |-> o.err, ad |-> concatAD(blockNo, fileID)]

\* returns what Open left in the buffer without looking at its error
DecryptBlock_IgnoreOpenErr(ct, blockNo, fileID) ==
    IF Len(ct) = 0 THEN [pt |-> ct, err |-> NoErr, ad |-> <<>>]
    ELSE IF ct = Zeros(cipherBS) THEN [pt |-> Zeros(plainBS), err |-> NoErr, ad |-> <<>>]
    ELSE IF Len(ct) < IVLen THEN [pt |-> <<>>, err |-> ErrShort, ad |-> <<>>]
    ELSE IF Slice(ct, 0, IVLen) = Zeros(IVLen)
         THEN [pt |-> <<>>, err |-> ErrZeroNonce, ad |-> <<>>]
    ELSE LET o == AEADOpen(sealed, aeadKey, Slice(ct, 0, IVLen),
                           Slice(ct, IVLen, Len(ct)), concatAD(blockNo, fileID))
         IN  [pt |-> o.pt, err |-> NoErr, ad |-> concatAD(blockNo, fileID)]

\* DecryptBlock - verify and decrypt one block.  The result carries the
\* plaintext (empty for Go's nil), the error, and the aData handed to Open
\* (empty when Open is not reached).
DecryptBlock(ct, blockNo, fileID) ==
    IF Len(ct) = 0 THEN [pt |-> ct, err |-> NoErr, ad |-> <<>>]
    ELSE IF ct = Zeros(cipherBS) THEN [pt |-> Zeros(plainBS), err |-> NoErr, ad |-> <<>>]
    ELSE IF Len(ct) < IVLen THEN [pt |-> <<>>, err |-> ErrShort, ad |-> <<>>]
    ELSE IF Slice(ct, 0, IVLen) = Zeros(IVLen)
         THEN [pt |-> <<>>, err |-> ErrZeroNonce, ad |-> <<>>]
    ELSE LET o == AEADOpen(sealed, aeadKey, Slice(ct, 0, IVLen),
                           Slice(ct, IVLen, Len(ct)), concatAD(blockNo, fileID))
         IN  [pt |-> o.pt, err |-> o.err, ad |-> concatAD(blockNo, fileID)]

----------------------------------------------------------------------------
(* parallelcrypto: the parallel driver *)

ParallelThreshold == 4
MaxParallelWorkers == 16
MinParallelWorkers == 2
BatchThreshold == 2

\* detectCPUFeatures assumes all three
hasAVX  == TRUE
hasAVX2 == TRUE
hasAES  == TRUE

ShouldUseParallel(enabled, cpus, blockCount) ==
    IF ~enabled THEN FALSE
    ELSE IF cpus < MinParallelWorkers THEN FALSE
    ELSE blockCount >= ParallelThreshold

\* batches whatever the block count
ShouldUseBatch_NoThreshold(enabled, blockCount) ==
    IF ~enabled THEN FALSE ELSE blockCount >= 0

ShouldUseBatch(enabled, blockCount) ==
    IF ~enabled THEN FALSE ELSE blockCount >= BatchThreshold

GetOptimalWorkerCount_NoBlockCap(enabled, cpus, blockCount) ==
    IF ~enabled THEN 1
    ELSE IF blockCount < ParallelThreshold THEN 1
    ELSE IF cpus < MinParallelWorkers THEN 1
    ELSE LET scaled == IF hasAVX2 /\ hasAES THEN (cpus * 3) \div 2
                       ELSE IF hasAVX THEN (cpus * 6) \div 5
                       ELSE cpus
         IN  IF scaled > MaxParallelWorkers THEN MaxParallelWorkers ELSE scaled

\* int(float64(workers) * 1.5) is (3 * workers) \div 2
GetOptimalWorkerCount(enabled, cpus, blockCount) ==
    IF ~enabled THEN 1
    ELSE IF blockCount < ParallelThreshold THEN 1
    ELSE IF cpus < MinParallelWorkers THEN 1
    ELSE LET scaled == IF hasAVX2 /\ hasAES THEN (cpus * 3) \div 2
                       ELSE IF hasAVX THEN (cpus * 6) \div 5
                       ELSE cpus
             capped == IF scaled > MaxParallelWorkers THEN MaxParallelWorkers ELSE scaled
         IN  IF capped > blockCount THEN blockCount ELSE capped

\* the last worker stops at its own group boundary
ParallelRanges_NoRemainder(enabled, cpus, blockCount) ==
    IF ~ShouldUseParallel(enabled, cpus, blockCount) THEN << <<0, blockCount>> >>
    ELSE LET workers   == GetOptimalWorkerCount(enabled, cpus, blockCount)
             groupSize == blockCount \div workers
         IN  [w \in 1..workers |-> <<(w - 1) * groupSize, w * groupSize>>]

\* the (startIdx, endIdx) each worker goroutine of ProcessBlocksParallel is
\* started with; the single range the caller runs itself when not parallel
ParallelRanges(enabled, cpus, blockCount) ==
    IF ~ShouldUseParallel(enabled, cpus, blockCount) THEN << <<0, blockCount>> >>
    ELSE LET workers   == GetOptimalWorkerCount(enabled, cpus, blockCount)
             groupSize == blockCount \div workers
         IN  [w \in 1..workers |->
                 <<(w - 1) * groupSize,
                   IF w - 1 = workers - 1 THEN blockCount ELSE w * groupSize>>]

\* the ranges ProcessBlocksBatch calls processFunc with, in order
BatchRanges(enabled, blockCount) ==
    IF ~ShouldUseBatch(enabled, blockCount) THEN << <<0, blockCount>> >>
    ELSE LET batchSize == IF hasAVX2 THEN 8 ELSE 4
             batches   == (blockCount + batchSize - 1) \div batchSize
         IN  [k \in 1..batches |->
                 <<(k - 1) * batchSize, Min(k * batchSize, blockCount)>>]

\* ProcessBlocksOptimized: which of the three ways runs processFunc
OptimizedMode(enabled, cpus, blockCount) ==
    IF ShouldUseParallel(enabled, cpus, blockCount) THEN "parallel"
    ELSE IF ShouldUseBatch(enabled, blockCount) THEN "batch"
    ELSE "serial"

OptimizedRanges(enabled, cpus, blockCount) ==
    IF ShouldUseParallel(enabled, cpus, blockCount)
    THEN ParallelRanges(enabled, cpus, blockCount)
    ELSE IF ShouldUseBatch(enabled, blockCount) THEN BatchRanges(enabled, blockCount)
    ELSE << <<0, blockCount>> >>

\* the driver of internal/parallelcrypto/parallelcrypto.go: no CPU features,
\* no batch mode
PlainParallelThreshold == 8
PlainMaxParallelWorkers == 8

PlainShouldUseParallel(enabled, cpus, blockCount) ==
    IF ~enabled THEN FALSE
    ELSE IF cpus < MinParallelWorkers THEN FALSE
    ELSE blockCount >= PlainParallelThreshold

PlainGetOptimalWorkerCount(enabled, cpus, blockCount) ==
    IF ~enabled THEN 1
    ELSE IF blockCount < PlainParallelThreshold THEN 1
    ELSE IF cpus < MinParallelWorkers THEN 1
    ELSE LET capped == IF cpus > PlainMaxParallelWorkers
                       THEN PlainMaxParallelWorkers ELSE cpus
         IN  IF capped > blockCount THEN blockCount ELSE capped

PlainParallelRanges(enabled, cpus, blockCount) ==
    IF ~PlainShouldUseParallel(enabled, cpus, blockCount) THEN << <<0, blockCount>> >>
    ELSE LET workers   == PlainGetOptimalWorkerCount(enabled, cpus, blockCount)
             groupSize == blockCount \div workers
         IN  [w \in 1..workers |->
                 <<(w - 1) * groupSize,
                   IF w - 1 = workers - 1 THEN blockCount ELSE w * groupSize>>]

----------------------------------------------------------------------------
(* Inputs *)

BlockSizes == {MaxBS - 1, MaxBS}

Keys == {1, 2}

\* CPUs of the machines the codec runs on
CodecCPUs == 1..MaxCodecCPU

\* a 16-byte file ID as read from a file header
FileID(k) == [i \in 1..headerIDLen |-> (k * 16 + i) % 256]

\* nil is what the config file, symlinks and xattrs pass
FileIDs == {NilFileID, FileID(1), FileID(2)}

BlockNos == {0, 1, 256}

\* n plaintext bytes
Plain(n) == [i \in 1..n |-> (i * 7 + 3) % 256]

NoRes == [pt |-> <<>>, err |-> "none", ad |-> <<>>]

GNoRes == [pt |-> <<>>, err |-> "none"]

\* nothing taken from the pools
NoPoolOut == [pBlockPool |-> 0, PReqPool |-> 0]

\* no KDF object yet
NoKDF == [kind |-> "none", N |-> 0, R |-> 0, P |-> 0, Memory |-> 0, Iterations |-> 0,
          Parallelism |-> 0, SaltLen |-> 0, KeyLen |-> 0]

GroupIdle ==
    /\ gpc = "off" /\ gMode = "none" /\ gPlain = <<>> /\ gFirstBlockNo = 0 /\ gFileID = NilFileID
    /\ cpuCount = 1 /\ shards = <<>> /\ ciphertextBlocks = <<>> /\ ciphertext = <<>>
    /\ gTampered = {} /\ plainBlocks = <<>> /\ decryptErr = NoErr /\ gRes = GNoRes
    /\ poolOut = NoPoolOut

BlockIdle ==
    /\ bpc = "off" /\ bPlain = <<>> /\ bBlockNo = 0 /\ bFileID = NilFileID
    /\ bCt = <<>> /\ bTamper = "none" /\ dBlockNo = 0 /\ dFileID = NilFileID
    /\ bRes = NoRes

SharedIdle == plainBS = MaxBS /\ aeadKey = 1 /\ nonceCtr = 0 /\ sealed = {}

DrvIdle ==
    /\ drvPc = "off" /\ drvImpl = "cpuaware" /\ drvEnabled = TRUE /\ drvCPU = 1
    /\ drvN = 0 /\ drvWorkers = 0 /\ drvShards = <<>> /\ drvWg = 0
    /\ drvCall = "none" /\ drvMode = "none"

KdfIdle == kdfPc = "off" /\ kdf = NoKDF /\ kdfOut = "none"

FaNoRes == [name |-> <<>>, err |-> "none"]

FaIdle ==
    /\ faPc = "off" /\ faEnabled = FALSE /\ faKey = 0 /\ faName = <<>> /\ faAuth = <<>> /\ faIn = <<>>
    /\ faTamper = "none" /\ faRes = FaNoRes

CfgIdle ==
    /\ cfgPc = "off" /\ cfgOld = <<>> /\ cfgNew = <<>> /\ cfgDest = <<>> /\ cfgTmp = <<>>
    /\ cfgDisk = [dest |-> <<>>, tmp |-> <<>>] /\ cfgRenamed = FALSE /\ cfgAt = "none"

WbNoArg == [data |-> <<>>, offset |-> 0]

WbNoPre == [Buffer |-> <<>>, Offset |-> 0, timedOut |-> FALSE]

\* DefaultConfig, scaled
WbDefaultConfig == [Threshold |-> Threshold, Timeout |-> Timeout, MaxSize |-> MaxSize]

WbIdle ==
    /\ wbPc = "off" /\ wbEnabled = FALSE /\ wbConfig = WbDefaultConfig
    /\ wbBuffer = <<>> /\ wbOffset = 0
    /\ wbLastWriteTime = 0 /\ wbNow = 0 /\ wbArg = WbNoArg /\ wbPre = WbNoPre
    /\ wbCalls = <<>> /\ wbRet = "none"

EncIdle == encPc = "off" /\ AEADBackend = "none" /\ encCalls = <<>>

MgrFiles == {"f1", "f2"}

MgrWriterIds == 1..MaxWriters

MgrNoCall == [pc |-> "idle", fileID |-> "f1", buf |-> 0, data |-> <<>>, offset |-> 0,
              missed |-> FALSE, ret |-> "none"]

MgrIdle ==
    /\ mgrPc = "off" /\ mgrTodo = {} /\ mgrBuffers = [f \in MgrFiles |-> 0]
    /\ mgrHeap = <<>> /\ mgrWriters = [w \in MgrWriterIds |-> MgrNoCall]
    /\ mgrStats = [accepted |-> 0, flushed |-> 0]

\* the goroutines calling Read, one call each
ApReaderIds == {1, 2}

ApNoRead == [pc |-> "idle", want |-> 0, ret |-> 0]

ApNoStore == [op |-> "none", arg |-> 0]

ApIdle ==
    /\ apPrefetchSize = 0 /\ apRequestCount = 0 /\ apProfilingEnabled = FALSE
    /\ apBuf = 0 /\ apRefill = <<>> /\ apStop = FALSE /\ apMutex = 0
    /\ apReaders = [r \in ApReaderIds |-> ApNoRead]
    /\ apRefillWorker = [pc |-> "off", size |-> 0]
    /\ apProfilingWorker = "off"
    /\ apLast = ApNoStore /\ apPanic = "none"

MpNoCall == [op |-> "none", ptr |-> 0, len |-> 0, mlockOk |-> FALSE, ret |-> FALSE]

MpIdle ==
    /\ mpPlatform = "off" /\ mpEnabled = FALSE /\ mpLockedPages = <<>>
    /\ mpKernelLocked = {} /\ mpCall = MpNoCall

\* getClientIdentifier: the remote address, the same string for every unbound
\* client socket
ClientIds == {"@"}

CtlNoConn == [state |-> "closed", peerUID |-> 0, credOk |-> FALSE]

CtlNoEntry == [exists |-> FALSE, lastRequest |-> 0, requestCount |-> 0]

CtlNoStep == [event |-> "none", limited |-> FALSE, dispatched |-> FALSE,
              response |-> "none"]

CtlIdle ==
    /\ ctlPlatform = "off" /\ ctlConn = CtlNoConn
    /\ ctlRateLimiter = [c \in ClientIds |-> CtlNoEntry]
    /\ ctlNow = 0 /\ ctlWindow = [prev |-> 0, now |-> 0] /\ ctlHandled = 0
    /\ ctlLast = CtlNoStep

MbNoArgs == [oldData |-> <<>>, newData |-> <<>>, offset |-> 0]

MbNoOut == [panic |-> FALSE, block |-> <<>>]

MbIdle == mbPc = "off" /\ mbArgs = MbNoArgs /\ mbOut = MbNoOut

WsIdle ==
    /\ wsPc = "off" /\ wsEnabled = FALSE /\ wsBuffer = <<>> /\ wsOffset = 0
    /\ wsWrites = <<>> /\ wsCalls = <<>>

ObNoCall == [op |-> "none", nonce |-> <<>>, ct |-> <<>>, pt |-> <<>>, err |-> "none",
             panic |-> FALSE]

ObIdle == obBackend = "off" /\ obArch = "off" /\ obSealed = {} /\ obLast = ObNoCall

SzNoBuf == [base |-> 0, len |-> 0]

SzIdle == szPc = "off" /\ szMem = <<>> /\ szPre = <<>> /\ szBuf = SzNoBuf

RestIdle == MgrIdle /\ ApIdle /\ MpIdle /\ CtlIdle /\ MbIdle /\ WsIdle /\ ObIdle /\ SzIdle

MgrOthersIdle == ApIdle /\ MpIdle /\ CtlIdle /\ MbIdle /\ WsIdle /\ ObIdle /\ SzIdle

ApOthersIdle == MgrIdle /\ MpIdle /\ CtlIdle /\ MbIdle /\ WsIdle /\ ObIdle /\ SzIdle

MpOthersIdle == MgrIdle /\ ApIdle /\ CtlIdle /\ MbIdle /\ WsIdle /\ ObIdle /\ SzIdle

CtlOthersIdle == MgrIdle /\ ApIdle /\ MpIdle /\ MbIdle /\ WsIdle /\ ObIdle /\ SzIdle

MbOthersIdle == MgrIdle /\ ApIdle /\ MpIdle /\ CtlIdle /\ WsIdle /\ ObIdle /\ SzIdle

WsOthersIdle == MgrIdle /\ ApIdle /\ MpIdle /\ CtlIdle /\ MbIdle /\ ObIdle /\ SzIdle

ObOthersIdle == MgrIdle /\ ApIdle /\ MpIdle /\ CtlIdle /\ MbIdle /\ WsIdle /\ SzIdle

SzOthersIdle == MgrIdle /\ ApIdle /\ MpIdle /\ CtlIdle /\ MbIdle /\ WsIdle /\ ObIdle

CoreIdle == SharedIdle /\ BlockIdle /\ GroupIdle /\ DrvIdle /\ KdfIdle

MidIdle == FaIdle /\ CfgIdle /\ WbIdle /\ EncIdle

AuxIdle == FaIdle /\ CfgIdle /\ WbIdle /\ EncIdle /\ RestIdle

----------------------------------------------------------------------------
(* One block through EncryptBlock, the backing store and DecryptBlock *)

BlockInit ==
    /\ plainBS \in BlockSizes
    /\ aeadKey \in Keys
    /\ nonceCtr = 0
    /\ sealed = {}
    /\ bpc = "new"
    /\ bPlain \in {Plain(n) : n \in 0..plainBS}
    /\ bBlockNo \in BlockNos
    /\ bFileID \in FileIDs
    /\ bCt = <<>>
    /\ bTamper = "none"
    /\ dBlockNo = bBlockNo
    /\ dFileID = bFileID
    /\ bRes = NoRes
    /\ GroupIdle /\ DrvIdle /\ KdfIdle /\ AuxIdle

B_EncryptBlock ==
    /\ bpc = "new"
    /\ nonceCtr' = nonceCtr + 1
    /\ bCt' = EncryptBlock(bPlain, bBlockNo, bFileID, nonceCtr + 1)
    /\ sealed' = SealedBy(sealed, bPlain, bBlockNo, bFileID, NonceOf(nonceCtr + 1))
    /\ bpc' = "sealed"
    /\ UNCHANGED <<plainBS, aeadKey, bPlain, bBlockNo, bFileID, bTamper,
                   dBlockNo, dFileID, bRes>>
    /\ UNCHANGED <<groupVars, drvVars, kdfVars, auxVars>>

\* the backing store returns the block with one bit inverted
B_FlipBit ==
    /\ bpc = "sealed"
    /\ \E pos \in 1..Len(bCt), k \in 0..7 :
          /\ bCt' = FlipBit(bCt, pos, k)
          /\ bTamper' = "flip"
    /\ bpc' = "tampered"
    /\ UNCHANGED <<sharedVars, bPlain, bBlockNo, bFileID, dBlockNo, dFileID, bRes>>
    /\ UNCHANGED <<groupVars, drvVars, kdfVars, auxVars>>

\* the backing store returns n zero bytes: a hole, or a short read of one
B_Zeros ==
    /\ bpc = "sealed"
    /\ \E n \in 0..cipherBS : bCt' = Zeros(n)
    /\ bTamper' = "zeros"
    /\ bpc' = "tampered"
    /\ UNCHANGED <<sharedVars, bPlain, bBlockNo, bFileID, dBlockNo, dFileID, bRes>>
    /\ UNCHANGED <<groupVars, drvVars, kdfVars, auxVars>>

\* the backing store returns only the first n bytes of the block
B_Truncate ==
    /\ bpc = "sealed"
    /\ \E n \in 1..(Len(bCt) - 1) : bCt' = SubSeq(bCt, 1, n)
    /\ bTamper' = "truncate"
    /\ bpc' = "tampered"
    /\ UNCHANGED <<sharedVars, bPlain, bBlockNo, bFileID, dBlockNo, dFileID, bRes>>
    /\ UNCHANGED <<groupVars, drvVars, kdfVars, auxVars>>

\* the backing store returns the block with its nonce zeroed
B_ZeroNonce ==
    /\ bpc = "sealed"
    /\ Len(bCt) > 0
    /\ bCt' = Zeros(IVLen) \o Slice(bCt, IVLen, Len(bCt))
    /\ bTamper' = "zeronnonce"
    /\ bpc' = "tampered"
    /\ UNCHANGED <<sharedVars, bPlain, bBlockNo, bFileID, dBlockNo, dFileID, bRes>>
    /\ UNCHANGED <<groupVars, drvVars, kdfVars, auxVars>>

\* the block is read back at another position or from another file
B_Move ==
    /\ bpc = "sealed"
    /\ \E b \in BlockNos, f \in FileIDs :
          /\ <<b, f>> # <<bBlockNo, bFileID>>
          /\ dBlockNo' = b
          /\ dFileID' = f
    /\ bTamper' = "moved"
    /\ bpc' = "tampered"
    /\ UNCHANGED <<sharedVars, bPlain, bBlockNo, bFileID, bCt, bRes>>
    /\ UNCHANGED <<groupVars, drvVars, kdfVars, auxVars>>

B_DecryptBlock ==
    /\ bpc \in {"sealed", "tampered"}
    /\ bRes' = DecryptBlock(bCt, dBlockNo, dFileID)
    /\ bpc' = "opened"
    /\ UNCHANGED <<sharedVars, bPlain, bBlockNo, bFileID, bCt, bTamper, dBlockNo, dFileID>>
    /\ UNCHANGED <<groupVars, drvVars, kdfVars, auxVars>>

BlockNext ==
    \/ B_EncryptBlock
    \/ B_FlipBit
    \/ B_Zeros
    \/ B_Truncate
    \/ B_ZeroNonce
    \/ B_Move
    \/ B_DecryptBlock

SpecBlock == BlockInit /\ [][BlockNext]_vars

----------------------------------------------------------------------------
(* contentenc: block groups *)

\* the file engine's split of a write into plaintext blocks of plainBS bytes,
\* the last of which may be short
RECURSIVE SplitBlocks(_, _)
SplitBlocks(s, bs) ==
    IF Len(s) = 0 THEN <<>>
    ELSE IF Len(s) <= bs THEN <<s>>
    ELSE <<SubSeq(s, 1, bs)>> \o SplitBlocks(SubSeq(s, bs + 1, Len(s)), bs)

\* the blocks a stored ciphertext consists of, a short last one included
BlockCount_RoundUp(ct) == (Len(ct) + cipherBS - 1) \div cipherBS

\* blockCount := len(ciphertext) / int(be.cipherBS)
BlockCount(ct) == Len(ct) \div cipherBS

\* cipherBlocks[i] = ciphertext[i*cipherBS : i*cipherBS + cipherBS]
CipherBlock(ct, i) == Slice(ct, i * cipherBS, Min(i * cipherBS + cipherBS, Len(ct)))

EncBlockNoAt_ShardRelative(firstBlockNo, startIdx, i) == firstBlockNo + (i - startIdx)

\* EncryptBlocks' worker: firstBlockNo+uint64(i)
EncBlockNoAt(firstBlockNo, startIdx, i) == firstBlockNo + i

\* the decrypt workers: blockNo := firstBlockNo + uint64(i)
DecBlockNoAt(firstBlockNo, startIdx, i) == firstBlockNo + i

\* decryptBlocksSequential: block after block until the buffer is empty or a
\* block fails; returns what was decrypted so far together with the error
RECURSIVE decryptBlocksSequential(_, _, _)
decryptBlocksSequential(ct, blockNo, fileID) ==
    IF Len(ct) = 0 THEN [pt |-> <<>>, err |-> NoErr]
    ELSE LET n == Min(cipherBS, Len(ct))
             r == DecryptBlock(SubSeq(ct, 1, n), blockNo, fileID)
         IN  IF r.err # NoErr THEN [pt |-> <<>>, err |-> r.err]
             ELSE LET rest == decryptBlocksSequential(SubSeq(ct, n + 1, Len(ct)),
                                                      blockNo + 1, fileID)
                  IN  [pt |-> r.pt \o rest.pt, err |-> rest.err]

\* the mutex-protected update of decryptErr in the decrypt workers
KeepFirstErr(cur, err) == IF err # NoErr /\ cur = NoErr THEN err ELSE cur

StartShards(ranges) ==
    [w \in 1..Len(ranges) |-> [lo |-> ranges[w][1], hi |-> ranges[w][2], cur |-> ranges[w][1]]]

\* worker w has a block left, and it is its turn: goroutines run in any
\* order, the ranges of the other modes one after the other
Runnable(w) ==
    /\ shards[w].cur < shards[w].hi
    /\ gMode = "parallel" \/ \A v \in 1..(w - 1) : shards[v].cur = shards[v].hi

AllShardsDone == \A w \in 1..Len(shards) : shards[w].cur = shards[w].hi

plaintextBlocks == SplitBlocks(gPlain, plainBS)

\* DecryptBlock got as far as plaintext := be.pBlockPool.Get(): the result
\* carries the aData handed to Open
TakesBlockBuffer(r) == r.ad # <<>>

Count(b) == IF b THEN 1 ELSE 0

\* the block of the group at which decryptBlocksSequential breaks out of its
\* loop, or -1 when every block decrypts
SeqFailingBlock(ct, blockNo, fileID) ==
    LET bad == {j \in 0..(BlockCount_RoundUp(ct) - 1) :
                   DecryptBlock(CipherBlock(ct, j), blockNo + j, fileID).err # NoErr}
    IN  IF bad = {} THEN -1 ELSE CHOOSE j \in bad : \A k \in bad : j <= k

\* decryptBlocksSequential: pBuf takes be.PReqPool.Get() and goes to the
\* caller; every block that decrypts is put back after pBuf.Write, the one
\* the loop breaks at is not
SeqPoolOut(ct, blockNo, fileID) ==
    LET f == SeqFailingBlock(ct, blockNo, fileID)
    IN  [pBlockPool |-> IF f = -1 THEN 0
                        ELSE Count(TakesBlockBuffer(
                                 DecryptBlock(CipherBlock(ct, f), blockNo + f, fileID))),
         PReqPool   |-> 1]

\* the entries of plainBlocks that are not nil and came from be.pBlockPool
PooledPlainBlocks ==
    {i \in 0..(Len(plainBlocks) - 1) :
        LET r == DecryptBlock(CipherBlock(ciphertext, i), gFirstBlockNo + i, gFileID)
        IN  r.err = NoErr /\ TakesBlockBuffer(r)}

GroupInit ==
    /\ plainBS \in BlockSizes
    /\ aeadKey = 1
    /\ nonceCtr = 0
    /\ sealed = {}
    /\ gpc = "new"
    /\ gMode = "none"
    /\ gPlain \in {Plain(n) : n \in 0..(MaxBlocks * plainBS + plainBS - 1)}
    /\ gFirstBlockNo = 254
    /\ gFileID = FileID(1)
    /\ cpuCount \in CodecCPUs
    /\ shards = <<>>
    /\ ciphertextBlocks = <<>>
    /\ ciphertext = <<>>
    /\ gTampered = {}
    /\ plainBlocks = <<>>
    /\ decryptErr = NoErr
    /\ gRes = GNoRes
    /\ poolOut = NoPoolOut
    /\ BlockIdle /\ DrvIdle /\ KdfIdle /\ AuxIdle

\* EncryptBlocks up to the call of ProcessBlocksOptimized
G_EncryptBlocks ==
    /\ gpc = "new"
    /\ ciphertextBlocks' = [i \in 1..Len(plaintextBlocks) |-> <<>>]
    /\ gMode' = OptimizedMode(TRUE, cpuCount, Len(plaintextBlocks))
    /\ shards' = StartShards(OptimizedRanges(TRUE, cpuCount, Len(plaintextBlocks)))
    /\ gpc' = "encrypting"
    /\ UNCHANGED <<sharedVars, gPlain, gFirstBlockNo, gFileID, cpuCount, ciphertext,
                   gTampered, plainBlocks, decryptErr, gRes>>
    /\ UNCHANGED poolOut
    /\ UNCHANGED <<blockVars, drvVars, kdfVars, auxVars>>

\* one iteration of the worker function of EncryptBlocks.  The nonce drawn
\* for block i is the (nonceCtr + i + 1)-th value of the generator: random
\* draws do not depend on the order in which the workers make them.
G_EncryptStep ==
    /\ gpc = "encrypting"
    /\ \E w \in 1..Len(shards) :
          /\ Runnable(w)
          /\ LET i       == shards[w].cur
                 blockNo == EncBlockNoAt(gFirstBlockNo, shards[w].lo, i)
             IN  /\ ciphertextBlocks' =
                        [ciphertextBlocks EXCEPT ![i + 1] =
                            EncryptBlock(plaintextBlocks[i + 1], blockNo, gFileID,
                                         nonceCtr + i + 1)]
                 /\ sealed' = SealedBy(sealed, plaintextBlocks[i + 1], blockNo, gFileID,
                                       NonceOf(nonceCtr + i + 1))
                 /\ shards' = [shards EXCEPT ![w].cur = i + 1]
    /\ UNCHANGED <<plainBS, aeadKey, nonceCtr, gpc, gMode, gPlain, gFirstBlockNo, gFileID,
                   cpuCount, ciphertext, gTampered, plainBlocks, decryptErr, gRes>>
    /\ UNCHANGED poolOut
    /\ UNCHANGED <<blockVars, drvVars, kdfVars, auxVars>>

\* the workers are joined; EncryptBlocks concatenates and returns
G_EncryptReturn ==
    /\ gpc = "encrypting"
    /\ AllShardsDone
    /\ ciphertext' = Concat(ciphertextBlocks)
    /\ nonceCtr' = nonceCtr + Len(plaintextBlocks)
    /\ gpc' = "encrypted"
    /\ gMode' = "none"
    /\ shards' = <<>>
    /\ UNCHANGED <<plainBS, aeadKey, sealed, gPlain, gFirstBlockNo, gFileID, cpuCount,
                   ciphertextBlocks, gTampered, plainBlocks, decryptErr, gRes>>
    /\ UNCHANGED poolOut
    /\ UNCHANGED <<blockVars, drvVars, kdfVars, auxVars>>

Chunks(ct) == 0..(BlockCount_RoundUp(ct) - 1)

\* the backing store inverts a bit of the body of block j
G_CorruptBody ==
    /\ gpc = "encrypted"
    /\ \A t \in gTampered : t[1] # "auth"
    /\ \E j \in Chunks(ciphertext) :
          /\ \A t \in gTampered : t[2] # j
          /\ Len(CipherBlock(ciphertext, j)) > IVLen
          /\ ciphertext' = FlipBit(ciphertext, j * cipherBS + IVLen + 1, 0)
          /\ gTampered' = gTampered \cup {<<"auth", j>>}
    /\ UNCHANGED <<sharedVars, gpc, gMode, gPlain, gFirstBlockNo, gFileID, cpuCount, shards,
                   ciphertextBlocks, plainBlocks, decryptErr, gRes>>
    /\ UNCHANGED poolOut
    /\ UNCHANGED <<blockVars, drvVars, kdfVars, auxVars>>

\* the backing store zeroes the nonce of block j
G_ZeroNonce ==
    /\ gpc = "encrypted"
    /\ \A t \in gTampered : t[1] # "zeronnonce"
    /\ \E j \in Chunks(ciphertext) :
          /\ \A t \in gTampered : t[2] # j
          /\ ciphertext' = [p \in 1..Len(ciphertext) |->
                               IF p > j * cipherBS /\ p <= j * cipherBS + IVLen
                               THEN 0 ELSE ciphertext[p]]
          /\ gTampered' = gTampered \cup {<<"zeronnonce", j>>}
    /\ UNCHANGED <<sharedVars, gpc, gMode, gPlain, gFirstBlockNo, gFileID, cpuCount, shards,
                   ciphertextBlocks, plainBlocks, decryptErr, gRes>>
    /\ UNCHANGED poolOut
    /\ UNCHANGED <<blockVars, drvVars, kdfVars, auxVars>>

\* DecryptBlocks up to the dispatch; the sequential path runs to its end
G_DecryptBlocks ==
    /\ gpc = "encrypted"
    /\ LET blockCount == BlockCount(ciphertext)
       IN  IF blockCount = 0
           THEN /\ gRes' = [pt |-> <<>>, err |-> NoErr]
                /\ gpc' = "done"
                /\ UNCHANGED <<gMode, shards, plainBlocks, decryptErr, poolOut>>
           ELSE IF ShouldUseParallel(TRUE, cpuCount, blockCount)
           THEN /\ gMode' = "parallel"
                /\ shards' = StartShards(ParallelRanges(TRUE, cpuCount, blockCount))
                /\ plainBlocks' = [i \in 1..blockCount |-> <<>>]
                /\ decryptErr' = NoErr
                /\ gpc' = "decrypting"
                /\ UNCHANGED <<gRes, poolOut>>
           ELSE IF ShouldUseBatch(TRUE, blockCount)
           THEN /\ gMode' = "batch"
                /\ shards' = StartShards(BatchRanges(TRUE, blockCount))
                /\ plainBlocks' = [i \in 1..blockCount |-> <<>>]
                /\ decryptErr' = NoErr
                /\ gpc' = "decrypting"
                /\ UNCHANGED <<gRes, poolOut>>
           ELSE /\ gRes' = decryptBlocksSequential(ciphertext, gFirstBlockNo, gFileID)
                /\ poolOut' = SeqPoolOut(ciphertext, gFirstBlockNo, gFileID)
                /\ gMode' = "serial"
                /\ gpc' = "done"
                /\ UNCHANGED <<shards, plainBlocks, decryptErr>>
    /\ UNCHANGED <<sharedVars, gPlain, gFirstBlockNo, gFileID, cpuCount, ciphertextBlocks,
                   ciphertext, gTampered>>
    /\ UNCHANGED <<blockVars, drvVars, kdfVars, auxVars>>

\* one iteration of the worker function of decryptBlocksParallel/Batch
G_DecryptStep ==
    /\ gpc = "decrypting"
    /\ \E w \in 1..Len(shards) :
          /\ Runnable(w)
          /\ LET i == shards[w].cur
                 r == DecryptBlock(CipherBlock(ciphertext, i),
                                   DecBlockNoAt(gFirstBlockNo, shards[w].lo, i), gFileID)
             IN  /\ decryptErr' = KeepFirstErr(decryptErr, r.err)
                 /\ plainBlocks' = [plainBlocks EXCEPT ![i + 1] = r.pt]
                 /\ poolOut' = [poolOut EXCEPT !.pBlockPool = @ + Count(TakesBlockBuffer(r))]
                 /\ shards' = [shards EXCEPT ![w].cur = i + 1]
    /\ UNCHANGED <<sharedVars, gpc, gMode, gPlain, gFirstBlockNo, gFileID, cpuCount,
                   ciphertextBlocks, ciphertext, gTampered, gRes>>
    /\ UNCHANGED <<blockVars, drvVars, kdfVars, auxVars>>

\* the workers are joined; decryptBlocksParallel/Batch returns
G_DecryptReturn ==
    /\ gpc = "decrypting"
    /\ AllShardsDone
    /\ gRes' = IF decryptErr # NoErr THEN [pt |-> <<>>, err |-> decryptErr]
               ELSE [pt |-> Concat(plainBlocks), err |-> NoErr]
    \* be.pBlockPool.Put of every block that is not nil; without an error
    \* pBuf takes be.PReqPool.Get() and goes to the caller
    /\ poolOut' = [pBlockPool |-> poolOut.pBlockPool - Cardinality(PooledPlainBlocks),
                   PReqPool   |-> poolOut.PReqPool + Count(decryptErr = NoErr)]
    /\ gpc' = "done"
    /\ UNCHANGED <<sharedVars, gMode, gPlain, gFirstBlockNo, gFileID, cpuCount, shards,
                   ciphertextBlocks, ciphertext, gTampered, plainBlocks, decryptErr>>
    /\ UNCHANGED <<blockVars, drvVars, kdfVars, auxVars>>

GroupNext ==
    \/ G_EncryptBlocks
    \/ G_EncryptStep
    \/ G_EncryptReturn
    \/ G_CorruptBody
    \/ G_ZeroNonce
    \/ G_DecryptBlocks
    \/ G_DecryptStep
    \/ G_DecryptReturn

SpecGroup == GroupInit /\ [][GroupNext]_vars

----------------------------------------------------------------------------
(* parallelcrypto: a call of ProcessBlocksParallel on either driver *)

DrvImpls == {"cpuaware", "plain"}

DrvCPUs == 1..MaxDrvCPU

DrvBlockCounts == 0..MaxDrvBlocks

DrvShouldUseParallel(impl, enabled, cpus, blockCount) ==
    IF impl = "cpuaware" THEN ShouldUseParallel(enabled, cpus, blockCount)
    ELSE PlainShouldUseParallel(enabled, cpus, blockCount)

DrvWorkerCount(impl, enabled, cpus, blockCount) ==
    IF impl = "cpuaware" THEN GetOptimalWorkerCount(enabled, cpus, blockCount)
    ELSE PlainGetOptimalWorkerCount(enabled, cpus, blockCount)

DrvRanges(impl, enabled, cpus, blockCount) ==
    IF impl = "cpuaware" THEN ParallelRanges(enabled, cpus, blockCount)
    ELSE PlainParallelRanges(enabled, cpus, blockCount)

\* New(): enabled, cpuCount = runtime.NumCPU()
DriverInit ==
    /\ drvPc = "idle"
    /\ drvImpl \in DrvImpls
    /\ drvEnabled = TRUE
    /\ drvCPU \in DrvCPUs
    /\ drvN = 0
    /\ drvWorkers = 0
    /\ drvShards = <<>>
    /\ drvWg = 0
    /\ drvCall = "none"
    /\ drvMode = "none"
    /\ SharedIdle /\ BlockIdle /\ GroupIdle /\ KdfIdle /\ AuxIdle

D_Disable ==
    /\ drvPc = "idle"
    /\ drvEnabled
    /\ drvEnabled' = FALSE
    /\ UNCHANGED <<drvPc, drvImpl, drvCPU, drvN, drvWorkers, drvShards, drvWg, drvCall, drvMode>>
    /\ UNCHANGED <<sharedVars, blockVars, groupVars, kdfVars, auxVars>>

D_Enable ==
    /\ drvPc = "idle"
    /\ ~drvEnabled
    /\ drvEnabled' = TRUE
    /\ UNCHANGED <<drvPc, drvImpl, drvCPU, drvN, drvWorkers, drvShards, drvWg, drvCall, drvMode>>
    /\ UNCHANGED <<sharedVars, blockVars, groupVars, kdfVars, auxVars>>

\* the body ProcessBlocksParallel and ProcessBlocksParallelWithResult share,
\* up to wg.Wait(): below the threshold the caller runs
\* processFunc(0, blockCount) itself and no worker is started; otherwise one
\* goroutine per worker is started with wg.Add(1)
StartParallel(blockCount) ==
    /\ drvN' = blockCount
    /\ drvShards' = DrvRanges(drvImpl, drvEnabled, drvCPU, blockCount)
    /\ IF DrvShouldUseParallel(drvImpl, drvEnabled, drvCPU, blockCount)
       THEN /\ drvWorkers' = DrvWorkerCount(drvImpl, drvEnabled, drvCPU, blockCount)
            /\ drvWg' = DrvWorkerCount(drvImpl, drvEnabled, drvCPU, blockCount)
            /\ drvMode' = "parallel"
       ELSE /\ drvWorkers' = 0
            /\ drvWg' = 0
            /\ drvMode' = "serial"

D_ProcessBlocksParallel ==
    /\ drvPc = "idle"
    /\ \E blockCount \in DrvBlockCounts : StartParallel(blockCount)
    /\ drvCall' = "ProcessBlocksParallel"
    /\ drvPc' = "running"
    /\ UNCHANGED <<drvImpl, drvEnabled, drvCPU>>
    /\ UNCHANGED <<sharedVars, blockVars, groupVars, kdfVars, auxVars>>

\* the same with one result slot per worker
D_ProcessBlocksParallelWithResult ==
    /\ drvPc = "idle"
    /\ \E blockCount \in DrvBlockCounts : StartParallel(blockCount)
    /\ drvCall' = "ProcessBlocksParallelWithResult"
    /\ drvPc' = "running"
    /\ UNCHANGED <<drvImpl, drvEnabled, drvCPU>>
    /\ UNCHANGED <<sharedVars, blockVars, groupVars, kdfVars, auxVars>>

\* ProcessBlocksBatch: the caller runs processFunc batch after batch
D_ProcessBlocksBatch ==
    /\ drvPc = "idle"
    /\ drvImpl = "cpuaware"
    /\ \E blockCount \in DrvBlockCounts :
          /\ drvN' = blockCount
          /\ drvShards' = BatchRanges(drvEnabled, blockCount)
          /\ drvMode' = IF ShouldUseBatch(drvEnabled, blockCount) THEN "batch" ELSE "serial"
    /\ drvWorkers' = 0
    /\ drvWg' = 0
    /\ drvCall' = "ProcessBlocksBatch"
    /\ drvPc' = "running"
    /\ UNCHANGED <<drvImpl, drvEnabled, drvCPU>>
    /\ UNCHANGED <<sharedVars, blockVars, groupVars, kdfVars, auxVars>>

\* ProcessBlocksOptimized: parallel, else batch, else processFunc(0, blockCount)
D_ProcessBlocksOptimized ==
    /\ drvPc = "idle"
    /\ drvImpl = "cpuaware"
    /\ \E blockCount \in DrvBlockCounts :
          /\ drvN' = blockCount
          /\ drvShards' = OptimizedRanges(drvEnabled, drvCPU, blockCount)
          /\ drvMode' = OptimizedMode(drvEnabled, drvCPU, blockCount)
          /\ IF ShouldUseParallel(drvEnabled, drvCPU, blockCount)
             THEN /\ drvWorkers' = GetOptimalWorkerCount(drvEnabled, drvCPU, blockCount)
                  /\ drvWg' = GetOptimalWorkerCount(drvEnabled, drvCPU, blockCount)
             ELSE /\ drvWorkers' = 0
                  /\ drvWg' = 0
    /\ drvCall' = "ProcessBlocksOptimized"
    /\ drvPc' = "running"
    /\ UNCHANGED <<drvImpl, drvEnabled, drvCPU>>
    /\ UNCHANGED <<sharedVars, blockVars, groupVars, kdfVars, auxVars>>

\* a worker goroutine returns from processFunc: defer wg.Done()
D_WorkerDone ==
    /\ drvPc = "running"
    /\ drvWg > 0
    /\ drvWg' = drvWg - 1
    /\ UNCHANGED <<drvPc, drvImpl, drvEnabled, drvCPU, drvN, drvWorkers, drvShards, drvCall,
                   drvMode>>
    /\ UNCHANGED <<sharedVars, blockVars, groupVars, kdfVars, auxVars>>

\* returns while goroutines are still running
D_Return_NoWait ==
    /\ drvPc = "running"
    /\ drvPc' = "idle"
    /\ UNCHANGED <<drvImpl, drvEnabled, drvCPU, drvN, drvWorkers, drvShards, drvWg, drvCall,
                   drvMode>>
    /\ UNCHANGED <<sharedVars, blockVars, groupVars, kdfVars, auxVars>>

\* wg.Wait() returns, and with it the call
D_Return ==
    /\ drvPc = "running"
    /\ drvWg = 0
    /\ drvPc' = "idle"
    /\ UNCHANGED <<drvImpl, drvEnabled, drvCPU, drvN, drvWorkers, drvShards, drvWg, drvCall,
                   drvMode>>
    /\ UNCHANGED <<sharedVars, blockVars, groupVars, kdfVars, auxVars>>

DriverNext ==
    \/ D_Disable
    \/ D_Enable
    \/ D_ProcessBlocksParallel
    \/ D_ProcessBlocksParallelWithResult
    \/ D_ProcessBlocksBatch
    \/ D_ProcessBlocksOptimized
    \/ D_WorkerDone
    \/ D_Return

SpecDriver == DriverInit /\ [][DriverNext]_vars

----------------------------------------------------------------------------
(* configfile: key derivation *)

scryptMinR == 8
scryptMinP == 1
scryptMinLogN == 10
scryptMinSaltLen == 32
ScryptDefaultLogN == 17

Argon2idDefaultMemory == 64 * 1024
Argon2idDefaultIterations == 3
Argon2idDefaultParallelism == 4
Argon2idMinMemory == 16 * 1024
Argon2idMinIterations == 1
Argon2idMinParallelism == 1
Argon2idMinSaltLen == 16

\* cryptocore.KeyLen
KeyLen == 32

\* what DeriveKey ends in
ExitScryptParams == "os.Exit(exitcodes.ScryptParams)"
Panicked         == "log.Panicf"
KeyReturned      == "key"

ScryptKDF_validateParams_NoSaltCheck(s) ==
    LET minN == Pow2(scryptMinLogN)
    IN  IF s.N < minN THEN "fatal: scryptn below 10 is too low to make sense"
        ELSE IF s.R < scryptMinR THEN "fatal: scrypt parameter R below minimum"
        ELSE IF s.P < scryptMinP THEN "fatal: scrypt parameter P below minimum"
        ELSE IF s.KeyLen < KeyLen THEN "fatal: scrypt parameter KeyLen below minimum"
        ELSE NoErr

ScryptKDF_validateParams(s) ==
    LET minN == Pow2(scryptMinLogN)
    IN  IF s.N < minN THEN "fatal: scryptn below 10 is too low to make sense"
        ELSE IF s.R < scryptMinR THEN "fatal: scrypt parameter R below minimum"
        ELSE IF s.P < scryptMinP THEN "fatal: scrypt parameter P below minimum"
        ELSE IF s.SaltLen < scryptMinSaltLen THEN "fatal: scrypt salt length below minimum"
        ELSE IF s.KeyLen < KeyLen THEN "fatal: scrypt parameter KeyLen below minimum"
        ELSE NoErr

\* scrypt.Key returns an error for an N that is no power of two
ScryptKeyErr(s) == ~(\E k \in 1..30 : s.N = Pow2(k))

ScryptKDF_DeriveKey(s) ==
    IF ScryptKDF_validateParams(s) # NoErr THEN ExitScryptParams
    ELSE IF ScryptKeyErr(s) THEN Panicked
    ELSE KeyReturned

Argon2idKDF_validateParams(a) ==
    IF a.Memory < Argon2idMinMemory THEN "fatal: Argon2id memory below minimum"
    ELSE IF a.Iterations < Argon2idMinIterations
    THEN "fatal: Argon2id iterations below minimum"
    ELSE IF a.Parallelism < Argon2idMinParallelism
    THEN "fatal: Argon2id parallelism below minimum"
    ELSE IF a.SaltLen < Argon2idMinSaltLen THEN "fatal: Argon2id salt length below minimum"
    ELSE IF a.KeyLen < KeyLen THEN "fatal: Argon2id key length below minimum"
    ELSE NoErr

Argon2idKDF_DeriveKey(a) ==
    IF Argon2idKDF_validateParams(a) # NoErr THEN ExitScryptParams ELSE KeyReturned

NewScryptKDF(logN) ==
    [NoKDF EXCEPT !.kind = "scrypt",
                  !.SaltLen = KeyLen,
                  !.N = IF logN <= 0 THEN Pow2(ScryptDefaultLogN) ELSE Pow2(logN),
                  !.R = 8,
                  !.P = 1,
                  !.KeyLen = KeyLen]

NewArgon2idKDFWithParams(memory, iterations, parallelism) ==
    [NoKDF EXCEPT !.kind = "argon2id",
                  !.SaltLen = KeyLen,
                  !.Memory = memory,
                  !.Iterations = iterations,
                  !.Parallelism = parallelism,
                  !.KeyLen = KeyLen]

NewArgon2idKDF ==
    NewArgon2idKDFWithParams(Argon2idDefaultMemory, Argon2idDefaultIterations,
                             Argon2idDefaultParallelism)

\* values on both sides of every floor; the int fields of ScryptKDF may be
\* negative, the unsigned fields of Argon2idKDF may not
LogNs == {-1, 0, 9, 10, 11, 17}
ScryptNs == {-1, 0, 1023, 1024, 1025, 2048}
ScryptRs == {-1, 7, 8, 9}
ScryptPs == {-1, 0, 1, 2}
ScryptKeyLens == {-1, 31, 32, 33}
SaltLens == {0, 15, 16, 17, 31, 32, 33}
Argon2idMemories == {0, 16383, 16384, 16385, 65536}
Argon2idIterations == {0, 1, 3}
Argon2idParallelisms == {0, 1, 4}
Argon2idKeyLens == {0, 31, 32, 64}

KDFInit ==
    /\ kdfPc = "none"
    /\ kdf = NoKDF
    /\ kdfOut = "none"
    /\ SharedIdle /\ BlockIdle /\ GroupIdle /\ DrvIdle /\ AuxIdle

K_NewScryptKDF ==
    /\ kdfPc = "none"
    /\ \E logN \in LogNs : kdf' = NewScryptKDF(logN)
    /\ kdfPc' = "new"
    /\ UNCHANGED kdfOut
    /\ UNCHANGED <<sharedVars, blockVars, groupVars, drvVars, auxVars>>

K_NewArgon2idKDF ==
    /\ kdfPc = "none"
    /\ kdf' = NewArgon2idKDF
    /\ kdfPc' = "new"
    /\ UNCHANGED kdfOut
    /\ UNCHANGED <<sharedVars, blockVars, groupVars, drvVars, auxVars>>

K_NewArgon2idKDFWithParams ==
    /\ kdfPc = "none"
    /\ \E m \in Argon2idMemories, i \in Argon2idIterations, p \in Argon2idParallelisms :
          kdf' = NewArgon2idKDFWithParams(m, i, p)
    /\ kdfPc' = "new"
    /\ UNCHANGED kdfOut
    /\ UNCHANGED <<sharedVars, blockVars, groupVars, drvVars, auxVars>>

\* a ScryptKDF whose fields were filled in from a config file
K_ScryptFromConfig ==
    /\ kdfPc = "none"
    /\ \E n \in ScryptNs, r \in ScryptRs, p \in ScryptPs, sl \in SaltLens,
          kl \in ScryptKeyLens :
          kdf' = [NoKDF EXCEPT !.kind = "scrypt", !.N = n, !.R = r, !.P = p,
                               !.SaltLen = sl, !.KeyLen = kl]
    /\ kdfPc' = "config"
    /\ UNCHANGED kdfOut
    /\ UNCHANGED <<sharedVars, blockVars, groupVars, drvVars, auxVars>>

\* an Argon2idKDF whose fields were filled in from a config file
K_Argon2idFromConfig ==
    /\ kdfPc = "none"
    /\ \E m \in Argon2idMemories, i \in Argon2idIterations, p \in Argon2idParallelisms,
          sl \in SaltLens, kl \in Argon2idKeyLens :
          kdf' = [NoKDF EXCEPT !.kind = "argon2id", !.Memory = m, !.Iterations = i,
                               !.Parallelism = p, !.SaltLen = sl, !.KeyLen = kl]
    /\ kdfPc' = "config"
    /\ UNCHANGED kdfOut
    /\ UNCHANGED <<sharedVars, blockVars, groupVars, drvVars, auxVars>>

K_ScryptDeriveKey ==
    /\ kdfPc \in {"new", "config"}
    /\ kdf.kind = "scrypt"
    /\ kdfOut' = ScryptKDF_DeriveKey(kdf)
    /\ kdfPc' = "derived"
    /\ UNCHANGED kdf
    /\ UNCHANGED <<sharedVars, blockVars, groupVars, drvVars, auxVars>>

K_Argon2idDeriveKey ==
    /\ kdfPc \in {"new", "config"}
    /\ kdf.kind = "argon2id"
    /\ kdfOut' = Argon2idKDF_DeriveKey(kdf)
    /\ kdfPc' = "derived"
    /\ UNCHANGED kdf
    /\ UNCHANGED <<sharedVars, blockVars, groupVars, drvVars, auxVars>>

KDFNext ==
    \/ K_NewScryptKDF
    \/ K_NewArgon2idKDF
    \/ K_NewArgon2idKDFWithParams
    \/ K_ScryptFromConfig
    \/ K_Argon2idFromConfig
    \/ K_ScryptDeriveKey
    \/ K_Argon2idDeriveKey

SpecKDF == KDFInit /\ [][KDFNext]_vars

----------------------------------------------------------------------------
(* filenameauth: a MAC appended to encrypted file names *)

\* Names are sequences of one-character strings.

FilenameAuthMACLen == 32
DefaultPrefetchSize == 512
MinPrefetchSize == 256
MaxPrefetchSize == 4096
HighThroughputThreshold == 1000
RefillCap == 2
\* the length of the array SecureZero stores through the unsafe pointer
zeroArrayLen == 1073741824
\* the nonce size of cipher.NewGCM, and the size above which the SIMD path is taken
gcmNonceSize == 12
simdMinLen == 1024
maxRequestsPerMinute == 60
\* time.Minute, the unit of the server's clock
rateLimitWindow == 1
FilenameAuthSeparator == "."

ErrFormat   == "invalid authenticated filename format"
ErrDecode   == "failed to decode MAC"
ErrMismatch == "filename authentication failed: MAC mismatch"

\* the alphabet of base64.URLEncoding
encodeURL ==
    <<
      "A", "B", "C", "D", "E", "F", "G", "H", "I", "J", "K", "L", "M", "N", "O", "P",
      "Q", "R", "S", "T", "U", "V", "W", "X", "Y", "Z", "a", "b", "c", "d", "e", "f",
      "g", "h", "i", "j", "k", "l", "m", "n", "o", "p", "q", "r", "s", "t", "u", "v",
      "w", "x", "y", "z", "0", "1", "2", "3", "4", "5", "6", "7", "8", "9", "-", "_" >>

padChar == "="

B64Set == {encodeURL[i] : i \in 1..Len(encodeURL)}

\* the 6-bit value of a character of the alphabet
B64Index(c) == (CHOOSE i \in 1..Len(encodeURL) : encodeURL[i] = c) - 1

B64Char(v) == encodeURL[v + 1]

\* base64.URLEncoding.EncodeToString: 3 bytes to 4 characters, the rest
\* padded with '='
RECURSIVE EncodeToString(_)
EncodeToString(src) ==
    IF Len(src) = 0 THEN <<>>
    ELSE IF Len(src) = 1
    THEN <<B64Char(src[1] \div 4), B64Char((src[1] % 4) * 16), padChar, padChar>>
    ELSE IF Len(src) = 2
    THEN <<B64Char(src[1] \div 4), B64Char((src[1] % 4) * 16 + src[2] \div 16),
           B64Char((src[2] % 16) * 4), padChar>>
    ELSE <<B64Char(src[1] \div 4), B64Char((src[1] % 4) * 16 + src[2] \div 16),
           B64Char((src[2] % 16) * 4 + src[3] \div 64), B64Char(src[3] % 64)>>
         \o EncodeToString(SubSeq(src, 4, Len(src)))

IsNewline(c) == c \in {"\n", "\r"}

NotNewline(c) == ~IsNewline(c)

\* the quanta of base64.URLEncoding.DecodeString on input without newlines:
\* four characters of the alphabet give three bytes; "xxx=" and "xx==" are
\* accepted at the end only and give two bytes and one byte, the bits of the
\* last character beyond them being dropped unchecked (the encoding is not
\* Strict()); anything else is a CorruptInputError
RECURSIVE decodeQuanta(_)
decodeQuanta(s) ==
    IF Len(s) = 0 THEN [ok |-> TRUE, bytes |-> <<>>]
    ELSE IF Len(s) < 4 THEN [ok |-> FALSE, bytes |-> <<>>]
    ELSE IF s[1] \notin B64Set \/ s[2] \notin B64Set THEN [ok |-> FALSE, bytes |-> <<>>]
    ELSE LET i1 == B64Index(s[1])
             i2 == B64Index(s[2])
             b1 == i1 * 4 + i2 \div 16
         IN  IF s[3] = padChar
             THEN IF s[4] = padChar /\ Len(s) = 4
                  THEN [ok |-> TRUE, bytes |-> <<b1>>]
                  ELSE [ok |-> FALSE, bytes |-> <<>>]
             ELSE IF s[3] \notin B64Set THEN [ok |-> FALSE, bytes |-> <<>>]
             ELSE LET i3 == B64Index(s[3])
                      b2 == (i2 % 16) * 16 + i3 \div 4
                  IN  IF s[4] = padChar
                      THEN IF Len(s) = 4
                           THEN [ok |-> TRUE, bytes |-> <<b1, b2>>]
                           ELSE [ok |-> FALSE, bytes |-> <<>>]
                      ELSE IF s[4] \notin B64Set THEN [ok |-> FALSE, bytes |-> <<>>]
                      ELSE LET b3   == (i3 % 4) * 64 + B64Index(s[4])
                               rest == decodeQuanta(SubSeq(s, 5, Len(s)))
                           IN  [ok |-> rest.ok,
                                bytes |-> IF rest.ok THEN <<b1, b2, b3>> \o rest.bytes
                                          ELSE <<>>]

\* base64.URLEncoding.DecodeString: '\r' and '\n' are ignored
DecodeString(s) == decodeQuanta(SelectSeq(s, NotNewline))

\* the byte a character of a name is stored as
CharCode(c) ==
    IF c \in B64Set THEN B64Index(c)
    ELSE IF c = FilenameAuthSeparator THEN 64
    ELSE IF c = padChar THEN 65
    ELSE 66

\* cryptocore.HKDFDerive(masterKey, "gocryptfs-filename-auth-v1", 32): a key
\* of its own for every master key
deriveFilenameMACKey(masterKey) == (masterKey * 7 + 3) % 256

\* calculateMAC - HMAC-SHA256 of data under macKey, as an ideal MAC: 32 bytes,
\* different for different (key, data)
calculateMAC(macKey, data) ==
    [i \in 1..FilenameAuthMACLen |->
        IF i = 1 THEN macKey
        ELSE IF i = 2 THEN Len(data)
        ELSE IF i - 2 <= Len(data) THEN CharCode(data[i - 2])
        ELSE (i * 37 + macKey * 11) % 256]

\* the index (0-based) of the last separator, or -1
LastSep(name) ==
    LET seps == {i \in 1..Len(name) : name[i] = FilenameAuthSeparator}
    IN  IF seps = {} THEN -1 ELSE (CHOOSE i \in seps : \A j \in seps : j <= i) - 1

splitAuthenticatedName_FirstSep(authenticatedName) ==
    LET seps == {i \in 1..Len(authenticatedName) :
                    authenticatedName[i] = FilenameAuthSeparator}
        sep  == IF seps = {} THEN -1
                ELSE (CHOOSE i \in seps : \A j \in seps : i <= j) - 1
    IN  IF sep = -1 THEN <<authenticatedName>>
        ELSE <<Slice(authenticatedName, 0, sep),
               Slice(authenticatedName, sep + 1, Len(authenticatedName))>>

\* splitAuthenticatedName: cut at the last separator
splitAuthenticatedName(authenticatedName) ==
    LET lastSep == LastSep(authenticatedName)
    IN  IF lastSep = -1 THEN <<authenticatedName>>
        ELSE <<Slice(authenticatedName, 0, lastSep),
               Slice(authenticatedName, lastSep + 1, Len(authenticatedName))>>

AuthenticateFilename_IgnoreEnabled(enabled, macKey, encryptedName) ==
    encryptedName \o <<FilenameAuthSeparator>>
        \o EncodeToString(calculateMAC(macKey, encryptedName))

\* AuthenticateFilename; it returns no error on any path
AuthenticateFilename(enabled, macKey, encryptedName) ==
    IF ~enabled THEN encryptedName
    ELSE encryptedName \o <<FilenameAuthSeparator>>
             \o EncodeToString(calculateMAC(macKey, encryptedName))

VerifyFilename(enabled, macKey, authenticatedName) ==
    IF ~enabled THEN [name |-> authenticatedName, err |-> NoErr]
    ELSE LET parts == splitAuthenticatedName(authenticatedName)
         IN  IF Len(parts) # 2 THEN [name |-> <<>>, err |-> ErrFormat]
             ELSE LET encryptedName == parts[1]
                      dec           == DecodeString(parts[2])
                  IN  IF ~dec.ok THEN [name |-> <<>>, err |-> ErrDecode]
                      ELSE IF dec.bytes # calculateMAC(macKey, encryptedName)
                      THEN [name |-> <<>>, err |-> ErrMismatch]
                      ELSE [name |-> encryptedName, err |-> NoErr]

\* characters of encrypted names; '.' is the separator
NameChars == {"a", FilenameAuthSeparator}

RECURSIVE NamesOfLen(_)
NamesOfLen(n) ==
    IF n = 0 THEN {<<>>}
    ELSE {Append(s, c) : s \in NamesOfLen(n - 1), c \in NameChars}

FaNames == UNION {NamesOfLen(n) : n \in 0..MaxNameLen}

FaMasterKeys == {1}

\* what a character of a stored name can be replaced with
StoredChars == B64Set \cup {padChar, FilenameAuthSeparator, "\n"}

FaInit ==
    /\ faPc = "new"
    /\ faEnabled \in BOOLEAN
    /\ \E masterKey \in FaMasterKeys :
           faKey = deriveFilenameMACKey(masterKey)
    /\ faName \in FaNames
    /\ faAuth = <<>>
    /\ faIn = <<>>
    /\ faTamper = "none"
    /\ faRes = FaNoRes
    /\ SharedIdle /\ BlockIdle /\ GroupIdle /\ DrvIdle /\ KdfIdle
    /\ CfgIdle /\ WbIdle /\ EncIdle /\ RestIdle

\* Wipe on an instance New has just returned: the key is zeroed and set to
\* nil, which HMAC takes as the empty key (0 here); enabled stays as it is
F_Wipe ==
    /\ faPc = "new"
    /\ faEnabled
    /\ faKey # 0
    /\ faKey' = 0
    /\ UNCHANGED <<faPc, faEnabled, faName, faAuth, faIn, faTamper, faRes>>
    /\ UNCHANGED <<sharedVars, blockVars, groupVars, drvVars, kdfVars, cfgVars, wbVars, encVars, restVars>>

F_AuthenticateFilename ==
    /\ faPc = "new"
    /\ faAuth' = AuthenticateFilename(faEnabled, faKey, faName)
    /\ faIn' = AuthenticateFilename(faEnabled, faKey, faName)
    /\ faPc' = "authenticated"
    /\ UNCHANGED <<faEnabled, faKey, faName, faTamper, faRes>>
    /\ UNCHANGED <<sharedVars, blockVars, groupVars, drvVars, kdfVars, cfgVars, wbVars, encVars, restVars>>

\* the directory holds the name with one character of the MAC suffix replaced
F_TamperMAC ==
    /\ faPc = "authenticated"
    /\ faEnabled
    /\ \E p \in (Len(faName) + 2)..Len(faAuth), c \in StoredChars :
          /\ c # faAuth[p]
          /\ faIn' = [faAuth EXCEPT ![p] = c]
    /\ faTamper' = "mac"
    /\ faPc' = "tampered"
    /\ UNCHANGED <<faEnabled, faKey, faName, faAuth, faRes>>
    /\ UNCHANGED <<sharedVars, blockVars, groupVars, drvVars, kdfVars, cfgVars, wbVars, encVars, restVars>>

\* the directory holds the name with one character of the name part replaced
F_TamperName ==
    /\ faPc = "authenticated"
    /\ \E p \in 1..Len(faName), c \in NameChars :
          /\ c # faAuth[p]
          /\ faIn' = [faAuth EXCEPT ![p] = c]
    /\ faTamper' = "name"
    /\ faPc' = "tampered"
    /\ UNCHANGED <<faEnabled, faKey, faName, faAuth, faRes>>
    /\ UNCHANGED <<sharedVars, blockVars, groupVars, drvVars, kdfVars, cfgVars, wbVars, encVars, restVars>>

\* the directory holds the name without its MAC suffix
F_StripMAC ==
    /\ faPc = "authenticated"
    /\ faEnabled
    /\ faIn' = faName
    /\ faTamper' = "nomac"
    /\ faPc' = "tampered"
    /\ UNCHANGED <<faEnabled, faKey, faName, faAuth, faRes>>
    /\ UNCHANGED <<sharedVars, blockVars, groupVars, drvVars, kdfVars, cfgVars, wbVars, encVars, restVars>>

F_VerifyFilename ==
    /\ faPc \in {"authenticated", "tampered"}
    /\ faRes' = VerifyFilename(faEnabled, faKey, faIn)
    /\ faPc' = "verified"
    /\ UNCHANGED <<faEnabled, faKey, faName, faAuth, faIn, faTamper>>
    /\ UNCHANGED <<sharedVars, blockVars, groupVars, drvVars, kdfVars, cfgVars, wbVars, encVars, restVars>>

FilenameAuthNext ==
    \/ F_Wipe
    \/ F_AuthenticateFilename
    \/ F_TamperMAC
    \/ F_TamperName
    \/ F_StripMAC
    \/ F_VerifyFilename

SpecFilenameAuth == FaInit /\ [][FilenameAuthNext]_vars

----------------------------------------------------------------------------
(* configfile: the crash-safe rewrite of the config envelope *)

\* The write protocol of the config store: (1) serialize the envelope to a
\* temporary file in the same directory, (2) sync that file, (3) atomically
\* rename it over the destination, (4) open the containing directory and
\* sync it.  The medium holds what was synced, and whatever else the kernel
\* chose to write back; a crash leaves what the medium holds.

\* envelopes are byte strings; the stored one and the new one differ
OldEnvelopes == {<<10, 11>>, <<10, 11, 12>>}

NewEnvelopes == {[i \in 1..n |-> 20 + i] : n \in 1..MaxEnvLen}

Prefixes(s) == {SubSeq(s, 1, n) : n \in 0..Len(s)}

ConfigInit ==
    /\ cfgPc = "start"
    /\ cfgOld \in OldEnvelopes
    /\ cfgNew \in NewEnvelopes
    /\ cfgDest = cfgOld
    /\ cfgTmp = <<>>
    /\ cfgDisk = [dest |-> cfgOld, tmp |-> <<>>]
    /\ cfgRenamed = FALSE
    /\ cfgAt = "none"
    /\ SharedIdle /\ BlockIdle /\ GroupIdle /\ DrvIdle /\ KdfIdle /\ FaIdle /\ WbIdle /\ EncIdle /\ RestIdle

\* step 1 gone wrong: the envelope is written over the destination itself
W_WriteTemp_InPlace ==
    /\ cfgPc \in {"start", "writing"}
    /\ \E n \in 1..Len(cfgNew) :
          /\ n > (IF cfgPc = "start" THEN 0 ELSE Len(cfgDest))
          /\ cfgDest' = SubSeq(cfgNew, 1, n)
          /\ cfgPc' = IF n = Len(cfgNew) THEN "written" ELSE "writing"
    /\ UNCHANGED <<cfgOld, cfgNew, cfgTmp, cfgDisk, cfgRenamed, cfgAt>>
    /\ UNCHANGED <<sharedVars, blockVars, groupVars, drvVars, kdfVars, faVars, wbVars, encVars, restVars>>

\* step 1: the temporary file is created and the serialized envelope written
\* to it, in one or more writes
W_WriteTemp ==
    /\ cfgPc \in {"start", "writing"}
    /\ \E n \in 1..Len(cfgNew) :
          /\ n > Len(cfgTmp)
          /\ cfgTmp' = SubSeq(cfgNew, 1, n)
          /\ cfgPc' = IF n = Len(cfgNew) THEN "written" ELSE "writing"
    /\ UNCHANGED <<cfgOld, cfgNew, cfgDest, cfgDisk, cfgRenamed, cfgAt>>
    /\ UNCHANGED <<sharedVars, blockVars, groupVars, drvVars, kdfVars, faVars, wbVars, encVars, restVars>>

\* the kernel writes back on its own: some more of the temporary file before
\* the rename, the renamed directory entry after it
W_Writeback ==
    /\ \/ /\ cfgPc \in {"writing", "written"}
          /\ \E t \in Prefixes(cfgTmp) :
                /\ Len(t) > Len(cfgDisk.tmp)
                /\ cfgDisk' = [cfgDisk EXCEPT !.tmp = t]
       \/ /\ cfgPc = "renamed"
          /\ cfgDisk.dest # cfgDest
          /\ cfgDisk' = [dest |-> cfgDisk.tmp, tmp |-> <<>>]
    /\ UNCHANGED <<cfgPc, cfgOld, cfgNew, cfgDest, cfgTmp, cfgRenamed, cfgAt>>
    /\ UNCHANGED <<sharedVars, blockVars, groupVars, drvVars, kdfVars, faVars, wbVars, encVars, restVars>>

\* step 2: sync of the temporary file
W_SyncTemp ==
    /\ cfgPc = "written"
    /\ cfgDisk' = [cfgDisk EXCEPT !.tmp = cfgTmp]
    /\ cfgPc' = "synced"
    /\ UNCHANGED <<cfgOld, cfgNew, cfgDest, cfgTmp, cfgRenamed, cfgAt>>
    /\ UNCHANGED <<sharedVars, blockVars, groupVars, drvVars, kdfVars, faVars, wbVars, encVars, restVars>>

\* step 3: the atomic rename over the destination
W_Rename ==
    /\ cfgPc = "synced"
    /\ cfgDest' = cfgTmp
    /\ cfgTmp' = <<>>
    /\ cfgRenamed' = TRUE
    /\ cfgPc' = "renamed"
    /\ UNCHANGED <<cfgOld, cfgNew, cfgDisk, cfgAt>>
    /\ UNCHANGED <<sharedVars, blockVars, groupVars, drvVars, kdfVars, faVars, wbVars, encVars, restVars>>

\* step 4: sync of the containing directory; where the filesystem has no
\* directory sync the failure is logged and swallowed
W_SyncDir ==
    /\ cfgPc = "renamed"
    /\ \/ cfgDisk' = [dest |-> cfgDest, tmp |-> <<>>]
       \/ UNCHANGED cfgDisk
    /\ cfgPc' = "done"
    /\ UNCHANGED <<cfgOld, cfgNew, cfgDest, cfgTmp, cfgRenamed, cfgAt>>
    /\ UNCHANGED <<sharedVars, blockVars, groupVars, drvVars, kdfVars, faVars, wbVars, encVars, restVars>>

\* step 1, 2 or 3 returns an error: the rewrite is given up
W_Fail ==
    /\ cfgPc \in {"start", "writing", "written", "synced"}
    /\ cfgAt' = cfgPc
    /\ cfgPc' = "failed"
    /\ UNCHANGED <<cfgOld, cfgNew, cfgDest, cfgTmp, cfgDisk, cfgRenamed>>
    /\ UNCHANGED <<sharedVars, blockVars, groupVars, drvVars, kdfVars, faVars, wbVars, encVars, restVars>>

\* the machine crashes and comes up again with what the medium holds
W_Crash ==
    /\ cfgPc \in {"start", "writing", "written", "synced", "renamed", "done", "failed"}
    /\ cfgDest' = cfgDisk.dest
    /\ cfgTmp' = cfgDisk.tmp
    /\ cfgAt' = IF cfgPc = "failed" THEN cfgAt ELSE cfgPc
    /\ cfgPc' = "crashed"
    /\ UNCHANGED <<cfgOld, cfgNew, cfgDisk, cfgRenamed>>
    /\ UNCHANGED <<sharedVars, blockVars, groupVars, drvVars, kdfVars, faVars, wbVars, encVars, restVars>>

ConfigNext ==
    \/ W_WriteTemp
    \/ W_Writeback
    \/ W_SyncTemp
    \/ W_Rename
    \/ W_SyncDir
    \/ W_Fail
    \/ W_Crash

SpecConfig == ConfigInit /\ [][ConfigNext]_vars

----------------------------------------------------------------------------
(* contentenc: EncryptBlock and EncryptBlockNonce *)

BackendOpenSSL == "BackendOpenSSL"
BackendGoGCM   == "BackendGoGCM"
BackendAESSIV  == "BackendAESSIV"

\* the backends with nonces of IVLen bytes
Backends == {BackendOpenSSL, BackendGoGCM, BackendAESSIV}

PanicSIVOnly     == "deterministic nonces are only secure in SIV mode"
PanicNonceLength == "wrong nonce length"
NoPanic          == "none"

\* log.Panic in doEncryptBlock
doEncryptBlockPanic(plaintext, nonce) ==
    IF Len(plaintext) = 0 THEN NoPanic
    ELSE IF Len(nonce) # IVLen THEN PanicNonceLength
    ELSE NoPanic

EncryptBlockNonce_AnyBackend(backend, plaintext, blockNo, fileID, nonce) ==
    IF doEncryptBlockPanic(plaintext, nonce) # NoPanic
    THEN [out |-> <<>>, panic |-> doEncryptBlockPanic(plaintext, nonce), sealed |-> sealed]
    ELSE [out    |-> doEncryptBlock(plaintext, blockNo, fileID, nonce),
          panic  |-> NoPanic,
          sealed |-> SealedBy(sealed, plaintext, blockNo, fileID, nonce)]

\* EncryptBlockNonce - encrypt using a nonce chosen by the caller: the
\* output, the panic that aborted the call, and what the AEAD has sealed
EncryptBlockNonce(backend, plaintext, blockNo, fileID, nonce) ==
    IF backend # BackendAESSIV
    THEN [out |-> <<>>, panic |-> PanicSIVOnly, sealed |-> sealed]
    ELSE IF doEncryptBlockPanic(plaintext, nonce) # NoPanic
    THEN [out |-> <<>>, panic |-> doEncryptBlockPanic(plaintext, nonce), sealed |-> sealed]
    ELSE [out    |-> doEncryptBlock(plaintext, blockNo, fileID, nonce),
          panic  |-> NoPanic,
          sealed |-> SealedBy(sealed, plaintext, blockNo, fileID, nonce)]

EncPlains == {Plain(0), Plain(1), Plain(plainBS)}

EncBlockNos == {0, 1}

\* nonces a caller may pass: one the generator has handed out or will hand
\* out, a constant one, one that is a byte short
CallerNonces == {NonceOf(1), [i \in 1..IVLen |-> 7], [i \in 1..(IVLen - 1) |-> 7]}

EncInit ==
    /\ plainBS \in BlockSizes
    /\ aeadKey = 1
    /\ nonceCtr = 0
    /\ sealed = {}
    /\ encPc = "ready"
    /\ AEADBackend \in Backends
    /\ encCalls = <<>>
    /\ BlockIdle /\ GroupIdle /\ DrvIdle /\ KdfIdle /\ FaIdle /\ CfgIdle /\ WbIdle /\ RestIdle

E_EncryptBlock ==
    /\ encPc = "ready"
    /\ Len(encCalls) < MaxEncCalls
    /\ \E plaintext \in EncPlains, blockNo \in EncBlockNos :
          /\ nonceCtr' = nonceCtr + 1
          /\ sealed' = SealedBy(sealed, plaintext, blockNo, FileID(1), NonceOf(nonceCtr + 1))
          /\ encCalls' = Append(encCalls,
                 [fn    |-> "EncryptBlock",
                  pt    |-> plaintext,
                  nonce |-> NonceOf(nonceCtr + 1),
                  out   |-> EncryptBlock(plaintext, blockNo, FileID(1), nonceCtr + 1),
                  panic |-> NoPanic])
    /\ UNCHANGED <<plainBS, aeadKey, encPc, AEADBackend>>
    /\ UNCHANGED <<blockVars, groupVars, drvVars, kdfVars, faVars, cfgVars, wbVars, restVars>>

E_EncryptBlockNonce ==
    /\ encPc = "ready"
    /\ Len(encCalls) < MaxEncCalls
    /\ \E plaintext \in EncPlains, blockNo \in EncBlockNos, nonce \in CallerNonces :
          LET r == EncryptBlockNonce(AEADBackend, plaintext, blockNo, FileID(1), nonce)
          IN  /\ sealed' = r.sealed
              /\ encCalls' = Append(encCalls,
                     [fn    |-> "EncryptBlockNonce",
                      pt    |-> plaintext,
                      nonce |-> nonce,
                      out   |-> r.out,
                      panic |-> r.panic])
              /\ encPc' = IF r.panic # NoPanic THEN "panicked" ELSE "ready"
    /\ UNCHANGED <<plainBS, aeadKey, nonceCtr, AEADBackend>>
    /\ UNCHANGED <<blockVars, groupVars, drvVars, kdfVars, faVars, cfgVars, wbVars, restVars>>

EncNext ==
    \/ E_EncryptBlock
    \/ E_EncryptBlockNonce

SpecEncrypt == EncInit /\ [][EncNext]_vars

----------------------------------------------------------------------------
(* writecoalescing: the per-file write buffer *)

\* the error a flush callback returns when the write below it fails
ErrFlush == "flush failed"

\* the buffer and what a call has done so far: callbacks invoked, error
WbState(buffer, offset, lastWriteTime) ==
    [Buffer |-> buffer, Offset |-> offset, LastWriteTime |-> lastWriteTime,
     calls |-> <<>>, err |-> NoErr]

\* wb.FlushCallback(data, offset); ok is whether the callback succeeds
FlushCallback(st, data, offset, ok) ==
    [st EXCEPT !.calls = Append(@, [data |-> data, offset |-> offset]),
               !.err   = IF ok THEN NoErr ELSE ErrFlush]

flushLocked_KeepBuffer(st, ok) ==
    IF Len(st.Buffer) = 0 THEN [st EXCEPT !.err = NoErr]
    ELSE FlushCallback(st, st.Buffer, st.Offset, ok)

\* flushLocked: the buffer is cleared, then the callback gets a copy
flushLocked(st, ok) ==
    IF Len(st.Buffer) = 0 THEN [st EXCEPT !.err = NoErr]
    ELSE FlushCallback([st EXCEPT !.Buffer = <<>>], st.Buffer, st.Offset, ok)

\* Write with coalescing enabled, at time now; oks[k] is whether the k-th
\* callback invoked succeeds
Write(st, data, offset, now, oks) ==
    IF Len(data) >= wbConfig.Threshold
    THEN LET s1 == IF Len(st.Buffer) > 0 THEN flushLocked(st, oks[1]) ELSE st
         IN  IF s1.err # NoErr THEN s1
             ELSE FlushCallback(s1, data, offset, oks[Len(s1.calls) + 1])
    ELSE LET s1 == IF Len(st.Buffer) > 0 /\ now - st.LastWriteTime > wbConfig.Timeout
                   THEN flushLocked(st, oks[1]) ELSE st
         IN  IF s1.err # NoErr THEN s1
             ELSE LET s2 == IF Len(s1.Buffer) + Len(data) > wbConfig.MaxSize
                            THEN flushLocked(s1, oks[Len(s1.calls) + 1]) ELSE s1
                  IN  IF s2.err # NoErr THEN s2
                      ELSE [s2 EXCEPT !.Offset = IF Len(s2.Buffer) = 0 THEN offset ELSE @,
                                      !.Buffer = @ \o data,
                                      !.LastWriteTime = now]

\* the n bytes of a write
WbData(n) == [i \in 1..n |-> (n * 16 + i) % 256]

WriteLens == 1..(Threshold + 1)

WbOffsets == {0, 5}

\* the configurations: the default one, and one whose MaxSize lies below its
\* Threshold as in TestWriteBufferMaxSize (1024 and 100)
WbConfigs ==
    {WbDefaultConfig,
     [Threshold |-> Threshold, Timeout |-> Timeout, MaxSize |-> Threshold - 2]}

CallbackOutcomes == [1..2 -> BOOLEAN]

WbInit ==
    /\ wbPc = "ready"
    /\ wbEnabled \in BOOLEAN
    /\ wbConfig \in WbConfigs
    /\ wbBuffer = <<>>
    /\ wbOffset = 0
    /\ wbLastWriteTime = 0
    /\ wbNow = 0
    /\ wbArg = WbNoArg
    /\ wbPre = WbNoPre
    /\ wbCalls = <<>>
    /\ wbRet = "none"
    /\ SharedIdle /\ BlockIdle /\ GroupIdle /\ DrvIdle /\ KdfIdle
    /\ FaIdle /\ CfgIdle /\ EncIdle /\ RestIdle

\* time passes between calls
WB_Tick ==
    /\ wbPc # "off"
    /\ wbNow < MaxWbClock
    /\ wbNow' = wbNow + 1
    /\ UNCHANGED <<wbPc, wbEnabled, wbConfig, wbBuffer, wbOffset, wbLastWriteTime,
                   wbArg, wbPre, wbCalls, wbRet>>
    /\ UNCHANGED <<sharedVars, blockVars, groupVars, drvVars, kdfVars, faVars, cfgVars, encVars, restVars>>

WB_Write ==
    /\ wbPc # "off"
    /\ \E n \in WriteLens, offset \in WbOffsets, oks \in CallbackOutcomes :
          LET data == WbData(n)
              st   == WbState(wbBuffer, wbOffset, wbLastWriteTime)
              r    == IF ~wbEnabled THEN FlushCallback(st, data, offset, oks[1])
                      ELSE Write(st, data, offset, wbNow, oks)
          IN  /\ wbBuffer' = r.Buffer
              /\ wbOffset' = r.Offset
              /\ wbLastWriteTime' = r.LastWriteTime
              /\ wbCalls' = r.calls
              /\ wbRet' = r.err
              /\ wbArg' = [data |-> data, offset |-> offset]
              /\ wbPre' = [Buffer |-> wbBuffer, Offset |-> wbOffset,
                           timedOut |-> wbNow - wbLastWriteTime > wbConfig.Timeout]
    /\ wbPc' = "written"
    /\ UNCHANGED <<wbEnabled, wbConfig, wbNow>>
    /\ UNCHANGED <<sharedVars, blockVars, groupVars, drvVars, kdfVars, faVars, cfgVars, encVars, restVars>>

\* Flush, and Close, which is Flush
WB_Flush ==
    /\ wbPc # "off"
    /\ \E ok \in BOOLEAN :
          LET r == flushLocked(WbState(wbBuffer, wbOffset, wbLastWriteTime), ok)
          IN  /\ wbBuffer' = r.Buffer
              /\ wbCalls' = r.calls
              /\ wbRet' = r.err
              /\ wbPre' = [Buffer |-> wbBuffer, Offset |-> wbOffset,
                           timedOut |-> wbNow - wbLastWriteTime > wbConfig.Timeout]
    /\ wbArg' = WbNoArg
    /\ wbPc' = "flushed"
    /\ UNCHANGED <<wbEnabled, wbConfig, wbOffset, wbLastWriteTime, wbNow>>
    /\ UNCHANGED <<sharedVars, blockVars, groupVars, drvVars, kdfVars, faVars, cfgVars, encVars, restVars>>

WriteBufferNext ==
    \/ WB_Tick
    \/ WB_Write
    \/ WB_Flush

SpecWriteBuffer == WbInit /\ [][WriteBufferNext]_vars

\* the same, with time passing; nothing obliges a caller to call again, and
\* the package starts no timer or goroutine of its own
SpecWriteBufferLive == WbInit /\ [][WriteBufferNext]_vars /\ WF_vars(WB_Tick)

----------------------------------------------------------------------------
(* writecoalescing: WriteBufferManager, Write calls racing with Close *)

\* every callback succeeds
AllOk == [k \in 1..2 |-> TRUE]

NewBuffer == [Buffer |-> <<>>, Offset |-> 0]

RECURSIVE CallBytes(_)
CallBytes(calls) ==
    IF calls = <<>> THEN 0 ELSE Len(Head(calls).data) + CallBytes(Tail(calls))

MgrInit ==
    /\ mgrPc = "open"
    /\ mgrTodo = {}
    /\ mgrBuffers = [f \in MgrFiles |-> 0]
    /\ mgrHeap = <<>>
    /\ mgrWriters = [w \in MgrWriterIds |-> MgrNoCall]
    /\ mgrStats = [accepted |-> 0, flushed |-> 0]
    /\ CoreIdle /\ MidIdle /\ MgrOthersIdle

\* a goroutine calls wbm.Write(fileID, data, offset) before Close has returned
M_Write ==
    /\ mgrPc \in {"open", "closing"}
    /\ \E w \in MgrWriterIds, f \in MgrFiles, n \in {1, Threshold} :
          /\ mgrWriters[w].pc = "idle"
          /\ mgrWriters' = [mgrWriters EXCEPT ![w] =
                 [pc |-> "called", fileID |-> f, buf |-> 0, data |-> WbData(n),
                  offset |-> 0, missed |-> FALSE, ret |-> "none"]]
    /\ UNCHANGED <<mgrPc, mgrTodo, mgrBuffers, mgrHeap, mgrStats>>
    /\ UNCHANGED <<coreVars, midVars, restNotMgr>>

GetBufferLocked_NoRecheck(buffers, heap, f) ==
    [buf |-> Len(heap) + 1,
     Buffers |-> [buffers EXCEPT ![f] = Len(heap) + 1],
     heap |-> Append(heap, NewBuffer)]

\* GetBuffer under the write lock: the entry of wbm.Buffers if another
\* goroutine has created it meanwhile, else a new buffer stored in the map
GetBufferLocked(buffers, heap, f) ==
    IF buffers[f] # 0
    THEN [buf |-> buffers[f], Buffers |-> buffers, heap |-> heap]
    ELSE [buf |-> Len(heap) + 1,
          Buffers |-> [buffers EXCEPT ![f] = Len(heap) + 1],
          heap |-> Append(heap, NewBuffer)]

\* GetBuffer under the read lock: the entry of wbm.Buffers, if there is one;
\* the read lock waits for Close to release wbm.Mutex
M_GetBuffer ==
    /\ mgrPc # "closing"
    /\ \E w \in MgrWriterIds :
          /\ mgrWriters[w].pc = "called"
          /\ LET f == mgrWriters[w].fileID
             IN  IF mgrBuffers[f] # 0
                 THEN mgrWriters' = [mgrWriters EXCEPT ![w].pc = "haveBuffer",
                                                      ![w].buf = mgrBuffers[f]]
                 ELSE mgrWriters' = [mgrWriters EXCEPT ![w].pc = "missed",
                                                      ![w].missed = TRUE]
    /\ UNCHANGED <<mgrPc, mgrTodo, mgrBuffers, mgrHeap, mgrStats>>
    /\ UNCHANGED <<coreVars, midVars, restNotMgr>>

\* GetBuffer after a miss: the write lock, which waits for Close too, the
\* second lookup and the creation
M_GetBufferCreate ==
    /\ mgrPc # "closing"
    /\ \E w \in MgrWriterIds :
          /\ mgrWriters[w].pc = "missed"
          /\ LET r == GetBufferLocked(mgrBuffers, mgrHeap, mgrWriters[w].fileID)
             IN  /\ mgrHeap' = r.heap
                 /\ mgrBuffers' = r.Buffers
                 /\ mgrWriters' = [mgrWriters EXCEPT ![w].pc = "haveBuffer",
                                                     ![w].buf = r.buf]
    /\ UNCHANGED <<mgrPc, mgrTodo, mgrStats>>
    /\ UNCHANGED <<coreVars, midVars, restNotMgr>>

\* buffer.Write(data, offset) on the buffer GetBuffer returned, under the
\* buffer's own mutex
M_BufferWrite ==
    /\ \E w \in MgrWriterIds :
          /\ mgrWriters[w].pc = "haveBuffer"
          /\ LET b == mgrWriters[w].buf
                 r == Write(WbState(mgrHeap[b].Buffer, mgrHeap[b].Offset, 0),
                            mgrWriters[w].data, mgrWriters[w].offset, 0, AllOk)
             IN  /\ mgrHeap' = [mgrHeap EXCEPT ![b] =
                                    [Buffer |-> r.Buffer, Offset |-> r.Offset]]
                 /\ mgrStats' = [accepted |-> mgrStats.accepted + Len(mgrWriters[w].data),
                                 flushed  |-> mgrStats.flushed + CallBytes(r.calls)]
                 /\ mgrWriters' = [mgrWriters EXCEPT ![w].pc = "done", ![w].ret = r.err]
    /\ UNCHANGED <<mgrPc, mgrTodo, mgrBuffers>>
    /\ UNCHANGED <<coreVars, midVars, restNotMgr>>

\* Close takes wbm.Mutex and starts to range over wbm.Buffers
M_Close ==
    /\ mgrPc = "open"
    /\ mgrPc' = "closing"
    /\ mgrTodo' = {f \in MgrFiles : mgrBuffers[f] # 0}
    /\ UNCHANGED <<mgrBuffers, mgrHeap, mgrWriters, mgrStats>>
    /\ UNCHANGED <<coreVars, midVars, restNotMgr>>

\* one iteration: buffer.Close(), which is Flush, then delete(wbm.Buffers, fileID)
M_CloseStep ==
    /\ mgrPc = "closing"
    /\ \E f \in mgrTodo :
          LET b == mgrBuffers[f]
              r == flushLocked(WbState(mgrHeap[b].Buffer, mgrHeap[b].Offset, 0), TRUE)
          IN  /\ mgrHeap' = [mgrHeap EXCEPT ![b] = [Buffer |-> r.Buffer, Offset |-> r.Offset]]
              /\ mgrStats' = [mgrStats EXCEPT !.flushed = @ + CallBytes(r.calls)]
              /\ mgrBuffers' = [mgrBuffers EXCEPT ![f] = 0]
              /\ mgrTodo' = mgrTodo \ {f}
    /\ UNCHANGED <<mgrPc, mgrWriters>>
    /\ UNCHANGED <<coreVars, midVars, restNotMgr>>

\* the loop is over; Close releases wbm.Mutex and returns
M_CloseReturn ==
    /\ mgrPc = "closing"
    /\ mgrTodo = {}
    /\ mgrPc' = "closed"
    /\ UNCHANGED <<mgrTodo, mgrBuffers, mgrHeap, mgrWriters, mgrStats>>
    /\ UNCHANGED <<coreVars, midVars, restNotMgr>>

MgrNext ==
    \/ M_Write
    \/ M_GetBuffer
    \/ M_GetBufferCreate
    \/ M_BufferWrite
    \/ M_Close
    \/ M_CloseStep
    \/ M_CloseReturn

SpecManager == MgrInit /\ [][MgrNext]_vars

----------------------------------------------------------------------------
(* cryptocore: AdaptivePrefetcher *)

\* the size Read is asked for: the largest one within the minimum prefetch size
Wants == {MinPrefetchSize}

\* the sizes SetPrefetchSize is called with (100 and 10000 as in
\* TestAdaptivePrefetcherSizeAdjustment)
SetSizes == {100, DefaultPrefetchSize, 10000}

\* requests per second seen by adjustPrefetchSize
RateSamples == {499, 500, HighThroughputThreshold, HighThroughputThreshold + 1}

PanicRefill == "refill: got wrong length"

PanicRead == "could not satisfy read"

SetPrefetchSize_NoClamp(size) == size

SetPrefetchSize(size) ==
    LET s1 == IF size < MinPrefetchSize THEN MinPrefetchSize ELSE size
    IN  IF s1 > MaxPrefetchSize THEN MaxPrefetchSize ELSE s1

\* the size adjustPrefetchSize stores for a current size and a request rate
adjustPrefetchSize(currentSize, requestsPerSecond) ==
    IF requestsPerSecond > HighThroughputThreshold
    THEN IF currentSize * 2 > MaxPrefetchSize THEN MaxPrefetchSize ELSE currentSize * 2
    ELSE IF requestsPerSecond < HighThroughputThreshold \div 2
         THEN IF currentSize \div 2 < MinPrefetchSize THEN MinPrefetchSize
              ELSE currentSize \div 2
         ELSE currentSize

\* NewAdaptivePrefetcher: both goroutines started
ApInit ==
    /\ apPrefetchSize = DefaultPrefetchSize
    /\ apRequestCount = 0
    /\ apProfilingEnabled = TRUE
    /\ apBuf = 0
    /\ apRefill = <<>>
    /\ apStop = FALSE
    /\ apMutex = 0
    /\ apReaders = [r \in ApReaderIds |-> ApNoRead]
    /\ apRefillWorker = [pc |-> "select", size |-> 0]
    /\ apProfilingWorker = "run"
    /\ apLast = ApNoStore
    /\ apPanic = "none"
    /\ CoreIdle /\ MidIdle /\ ApOthersIdle

ApFrame == UNCHANGED <<coreVars, midVars, restNotAp>>

\* Read(want): the request counter is incremented before the mutex is taken
A_Read ==
    /\ apPanic = "none"
    /\ \E r \in ApReaderIds, want \in Wants :
          /\ apReaders[r].pc = "idle"
          /\ apReaders' = [apReaders EXCEPT ![r] =
                              [pc |-> "lock", want |-> want, ret |-> 0]]
    /\ apRequestCount' = IF apProfilingEnabled THEN apRequestCount + 1 ELSE apRequestCount
    /\ UNCHANGED <<apPrefetchSize, apProfilingEnabled, apBuf, apRefill, apStop, apMutex,
                   apRefillWorker, apProfilingWorker, apLast, apPanic>>
    /\ ApFrame

\* ap.mutex.Lock() and the first ap.buf.Read(out): a short read drains the buffer
A_ReadBuf ==
    /\ apPanic = "none"
    /\ apMutex = 0
    /\ \E r \in ApReaderIds :
          /\ apReaders[r].pc = "lock"
          /\ IF apBuf >= apReaders[r].want
             THEN /\ apBuf' = apBuf - apReaders[r].want
                  /\ apReaders' = [apReaders EXCEPT ![r].pc = "done",
                                                    ![r].ret = apReaders[r].want]
                  /\ UNCHANGED apMutex
             ELSE /\ apBuf' = 0
                  /\ apReaders' = [apReaders EXCEPT ![r].pc = "recv"]
                  /\ apMutex' = r
    /\ UNCHANGED <<apPrefetchSize, apRequestCount, apProfilingEnabled, apRefill, apStop,
                   apRefillWorker, apProfilingWorker, apLast, apPanic>>
    /\ ApFrame

\* fresh := <-ap.refill, the length check against the size loaded then, the
\* refill of ap.buf and the second ap.buf.Read(out); the deferred Unlock runs in
\* every case.  A store to ap.prefetchSize between the receive and the load
\* has the effect of one just before the receive.
A_ReadRecv ==
    /\ apPanic = "none"
    /\ apRefill # <<>>
    /\ \E r \in ApReaderIds :
          /\ apReaders[r].pc = "recv"
          /\ LET fresh == Head(apRefill)
             IN  IF fresh # apPrefetchSize
                 THEN /\ apPanic' = PanicRefill
                      /\ apReaders' = [apReaders EXCEPT ![r].pc = "panic"]
                      /\ UNCHANGED apBuf
                 ELSE IF fresh < apReaders[r].want
                      THEN /\ apPanic' = PanicRead
                           /\ apReaders' = [apReaders EXCEPT ![r].pc = "panic"]
                           /\ apBuf' = 0
                      ELSE /\ apBuf' = fresh - apReaders[r].want
                           /\ apReaders' = [apReaders EXCEPT ![r].pc = "done",
                                                             ![r].ret = apReaders[r].want]
                           /\ UNCHANGED apPanic
    /\ apRefill' = Tail(apRefill)
    /\ apMutex' = 0
    /\ UNCHANGED <<apPrefetchSize, apRequestCount, apProfilingEnabled, apStop,
                   apRefillWorker, apProfilingWorker, apLast>>
    /\ ApFrame

\* refillWorker, the select: return if ap.stop is closed, else load the size
A_RefillSelect ==
    /\ apPanic = "none"
    /\ apRefillWorker.pc = "select"
    /\ apRefillWorker' = IF apStop THEN [pc |-> "done", size |-> 0]
                         ELSE [pc |-> "send", size |-> apPrefetchSize]
    /\ UNCHANGED <<apPrefetchSize, apRequestCount, apProfilingEnabled, apBuf, apRefill,
                   apStop, apMutex, apReaders, apProfilingWorker, apLast, apPanic>>
    /\ ApFrame

\* refillWorker, ap.refill <- RandBytes(size): waits while the channel is full
A_RefillSend ==
    /\ apPanic = "none"
    /\ apRefillWorker.pc = "send"
    /\ Len(apRefill) < RefillCap
    /\ apRefill' = Append(apRefill, apRefillWorker.size)
    /\ apRefillWorker' = [pc |-> "select", size |-> 0]
    /\ UNCHANGED <<apPrefetchSize, apRequestCount, apProfilingEnabled, apBuf, apStop,
                   apMutex, apReaders, apProfilingWorker, apLast, apPanic>>
    /\ ApFrame

\* profilingWorker, a tick: adjustPrefetchSize
A_ProfilingTick ==
    /\ apPanic = "none"
    /\ apProfilingWorker = "run"
    /\ IF ~apProfilingEnabled
       THEN UNCHANGED <<apPrefetchSize, apRequestCount, apLast>>
       ELSE /\ apRequestCount' = 0
            /\ \E elapsedShort \in BOOLEAN,
                  rps \in (IF apRequestCount = 0 THEN {0} ELSE RateSamples) :
                  LET newSize == adjustPrefetchSize(apPrefetchSize, rps)
                  IN  IF elapsedShort \/ newSize = apPrefetchSize
                      THEN UNCHANGED <<apPrefetchSize, apLast>>
                      ELSE /\ apPrefetchSize' = newSize
                           /\ apLast' = [op |-> "adjust", arg |-> apPrefetchSize]
    /\ UNCHANGED <<apProfilingEnabled, apBuf, apRefill, apStop, apMutex, apReaders,
                   apRefillWorker, apProfilingWorker, apPanic>>
    /\ ApFrame

\* profilingWorker, the select takes <-ap.stop
A_ProfilingStop ==
    /\ apPanic = "none"
    /\ apProfilingWorker = "run"
    /\ apStop
    /\ apProfilingWorker' = "done"
    /\ UNCHANGED <<apPrefetchSize, apRequestCount, apProfilingEnabled, apBuf, apRefill,
                   apStop, apMutex, apReaders, apRefillWorker, apLast, apPanic>>
    /\ ApFrame

A_SetPrefetchSize ==
    /\ apPanic = "none"
    /\ \E size \in SetSizes :
          /\ apPrefetchSize' = SetPrefetchSize(size)
          /\ apLast' = [op |-> "set", arg |-> size]
    /\ UNCHANGED <<apRequestCount, apProfilingEnabled, apBuf, apRefill, apStop, apMutex,
                   apReaders, apRefillWorker, apProfilingWorker, apPanic>>
    /\ ApFrame

\* Close: close(ap.stop)
A_Close ==
    /\ apPanic = "none"
    /\ ~apStop
    /\ apStop' = TRUE
    /\ UNCHANGED <<apPrefetchSize, apRequestCount, apProfilingEnabled, apBuf, apRefill,
                   apMutex, apReaders, apRefillWorker, apProfilingWorker, apLast, apPanic>>
    /\ ApFrame

ApWorkerSteps ==
    \/ A_ReadBuf
    \/ A_ReadRecv
    \/ A_RefillSelect
    \/ A_RefillSend

ApNext ==
    \/ A_Read
    \/ ApWorkerSteps
    \/ A_ProfilingTick
    \/ A_ProfilingStop
    \/ A_SetPrefetchSize
    \/ A_Close

SpecPrefetch == ApInit /\ [][ApNext]_vars

\* every goroutine that can take a step is scheduled; the select of the
\* profiling worker takes the closed stop channel in the end
SpecPrefetchLive ==
    ApInit /\ [][ApNext]_vars /\ WF_vars(ApWorkerSteps) /\ WF_vars(A_ProfilingStop)

----------------------------------------------------------------------------
(* memprotect: LockMemory *)

\* the buffers handed to LockMemory: their addresses
MpRegions == {1, 2}

\* their lengths; 0 is the nil or empty slice
MpLens == {0, 1024}

\* the result of LockMemory on each build, whether the region is tracked and
\* whether the kernel holds it locked afterwards
LockMemory(platform, enabled, len, mlockOk, madviseOk) ==
    IF ~enabled \/ len = 0
    THEN [ret |-> FALSE, tracked |-> FALSE, locked |-> FALSE]
    ELSE IF platform = "linux"
         THEN [ret |-> TRUE, tracked |-> TRUE, locked |-> mlockOk]
         ELSE [ret |-> FALSE, tracked |-> TRUE, locked |-> FALSE]

\* mp.lockedPages without its first entry equal to ptr
RECURSIVE RemoveFirst(_, _)
RemoveFirst(pages, ptr) ==
    IF pages = <<>> THEN <<>>
    ELSE IF Head(pages) = ptr THEN Tail(pages)
         ELSE <<Head(pages)>> \o RemoveFirst(Tail(pages), ptr)

\* New()
MpInit ==
    /\ mpPlatform \in {"linux", "other"}
    /\ mpEnabled = TRUE
    /\ mpLockedPages = <<>>
    /\ mpKernelLocked = {}
    /\ mpCall = MpNoCall
    /\ CoreIdle /\ MidIdle /\ MpOthersIdle

MpFrame == UNCHANGED <<coreVars, midVars, restNotMp>>

MP_LockMemory ==
    /\ Len(mpLockedPages) < MaxLockedPages
    /\ \E ptr \in MpRegions, len \in MpLens, mlockOk \in BOOLEAN, madviseOk \in BOOLEAN :
          LET r == LockMemory(mpPlatform, mpEnabled, len, mlockOk, madviseOk)
          IN  /\ mpLockedPages' = IF r.tracked THEN Append(mpLockedPages, ptr)
                                  ELSE mpLockedPages
              /\ mpKernelLocked' = IF r.locked THEN mpKernelLocked \cup {ptr}
                                   ELSE mpKernelLocked
              /\ mpCall' = [op |-> "LockMemory", ptr |-> ptr, len |-> len,
                            mlockOk |-> mlockOk, ret |-> r.ret]
    /\ UNCHANGED <<mpPlatform, mpEnabled>>
    /\ MpFrame

MP_UnlockMemory ==
    /\ \E ptr \in MpRegions, len \in MpLens :
          /\ len # 0
          /\ mpKernelLocked' = mpKernelLocked \ {ptr}
          /\ mpLockedPages' = RemoveFirst(mpLockedPages, ptr)
          /\ mpCall' = [op |-> "UnlockMemory", ptr |-> ptr, len |-> len,
                        mlockOk |-> FALSE, ret |-> FALSE]
    /\ UNCHANGED <<mpPlatform, mpEnabled>>
    /\ MpFrame

MP_Disable ==
    /\ mpEnabled
    /\ mpEnabled' = FALSE
    /\ mpCall' = [MpNoCall EXCEPT !.op = "Disable"]
    /\ UNCHANGED <<mpPlatform, mpLockedPages, mpKernelLocked>>
    /\ MpFrame

MpNext ==
    \/ MP_LockMemory
    \/ MP_UnlockMemory
    \/ MP_Disable

SpecMemprotect == MpInit /\ [][MpNext]_vars

----------------------------------------------------------------------------
(* ctlsocksrv: peer credentials and rate limiting *)

\* os.Getuid()
ourUID == 1000

PeerUIDs == {ourUID, ourUID + 1}

ErrPeerCred == "failed to get peer credentials"

ErrPeerUID == "peer UID does not match server UID"

ErrRateLimit == "rate limit exceeded"

\* getPeerCredentials on each build: fileOk is the outcome of conn.File(),
\* sockoptOk that of getsockopt
getPeerCredentials(platform, peerUID, fileOk, sockoptOk) ==
    IF platform = "linux"
    THEN IF fileOk /\ sockoptOk THEN [err |-> NoErr, UID |-> peerUID]
         ELSE [err |-> ErrPeerCred, UID |-> 0]
    ELSE IF platform = "darwin"
         THEN IF ~fileOk THEN [err |-> ErrPeerCred, UID |-> 0]
              ELSE IF ~sockoptOk THEN [err |-> NoErr, UID |-> ourUID]
                   ELSE [err |-> NoErr, UID |-> peerUID]
         ELSE [err |-> NoErr, UID |-> ourUID]

checkPeerCredentials(platform, peerUID, fileOk, sockoptOk) ==
    LET cred == getPeerCredentials(platform, peerUID, fileOk, sockoptOk)
    IN  IF cred.err # NoErr THEN ErrPeerCred
        ELSE IF cred.UID # ourUID THEN ErrPeerUID
             ELSE NoErr

checkRateLimit_NoLimit(limiter, clientID, now) ==
    LET entry == limiter[clientID]
    IN  IF ~entry.exists \/ now - entry.lastRequest > rateLimitWindow
        THEN [limiter |-> [limiter EXCEPT ![clientID] =
                              [exists |-> TRUE, lastRequest |-> now, requestCount |-> 1]],
              err |-> NoErr]
        ELSE [limiter |-> [limiter EXCEPT ![clientID].requestCount = @ + 1,
                                           ![clientID].lastRequest = now],
              err |-> NoErr]

\* checkRateLimit: the limiter afterwards and the error
checkRateLimit(limiter, clientID, now) ==
    LET entry == limiter[clientID]
    IN  IF ~entry.exists
        THEN [limiter |-> [limiter EXCEPT ![clientID] =
                              [exists |-> TRUE, lastRequest |-> now, requestCount |-> 1]],
              err |-> NoErr]
        ELSE IF now - entry.lastRequest > rateLimitWindow
             THEN [limiter |-> [limiter EXCEPT ![clientID].lastRequest = now,
                                                ![clientID].requestCount = 1],
                   err |-> NoErr]
             ELSE IF entry.requestCount >= maxRequestsPerMinute
                  THEN [limiter |-> limiter, err |-> ErrRateLimit]
                  ELSE [limiter |-> [limiter EXCEPT ![clientID].requestCount = @ + 1,
                                                     ![clientID].lastRequest = now],
                        err |-> NoErr]

\* the server as Serve leaves it, and as it is after maxRequestsPerMinute - 2
\* requests served within the first minute, spread over the first two, or
\* one in each of as many minutes, the clock counting from the last of them
CtlHistories ==
    {[now |-> 0, entry |-> CtlNoEntry, window |-> [prev |-> 0, now |-> 0]],
     [now |-> 0,
      entry |-> [exists |-> TRUE, lastRequest |-> 0,
                 requestCount |-> maxRequestsPerMinute - 2],
      window |-> [prev |-> 0, now |-> maxRequestsPerMinute - 2]],
     [now |-> 1,
      entry |-> [exists |-> TRUE, lastRequest |-> 1,
                 requestCount |-> maxRequestsPerMinute - 2],
      window |-> [prev |-> (maxRequestsPerMinute - 2) \div 2,
                  now |-> (maxRequestsPerMinute - 2) \div 2]],
     [now |-> 0,
      entry |-> [exists |-> TRUE, lastRequest |-> 0,
                 requestCount |-> maxRequestsPerMinute - 2],
      window |-> [prev |-> 1, now |-> 1]]}

\* what the client sends next: a request, bytes that are no JSON, a request
\* of ReadBufSize bytes, or nothing before closing
CtlInputs == {"request", "badjson", "toobig", "eof"}

CtlInit ==
    /\ ctlPlatform \in {"linux", "darwin", "other"}
    /\ ctlConn = CtlNoConn
    /\ \E h \in CtlHistories :
          /\ ctlRateLimiter = [c \in ClientIds |-> h.entry]
          /\ ctlNow = h.now
          /\ ctlWindow = h.window
    /\ ctlHandled = 0
    /\ ctlLast = CtlNoStep
    /\ CoreIdle /\ MidIdle /\ CtlOthersIdle

CtlFrame == UNCHANGED <<coreVars, midVars, restNotCtl>>

\* acceptLoop hands a connection to handleConnection, which checks the
\* peer's credentials and returns, closing the connection, if the check fails
CTL_Accept ==
    /\ ctlConn.state = "closed"
    /\ \E peerUID \in PeerUIDs, fileOk \in BOOLEAN, sockoptOk \in BOOLEAN :
          LET err == checkPeerCredentials(ctlPlatform, peerUID, fileOk, sockoptOk)
          IN  ctlConn' = [state |-> IF err = NoErr THEN "open" ELSE "closed",
                          peerUID |-> peerUID, credOk |-> fileOk /\ sockoptOk]
    /\ ctlLast' = [CtlNoStep EXCEPT !.event = "accept"]
    /\ UNCHANGED <<ctlPlatform, ctlRateLimiter, ctlNow, ctlWindow, ctlHandled>>
    /\ CtlFrame

\* one turn of the loop of handleConnection
CTL_Request ==
    /\ ctlConn.state = "open"
    /\ ctlHandled < MaxCtlRequests
    /\ ctlHandled' = ctlHandled + 1
    /\ \E input \in CtlInputs, c \in ClientIds :
          IF input \in {"eof", "toobig"}
          THEN /\ ctlConn' = [ctlConn EXCEPT !.state = "closed"]
               /\ ctlLast' = [CtlNoStep EXCEPT !.event = input]
               /\ UNCHANGED <<ctlRateLimiter, ctlWindow>>
          ELSE LET r == checkRateLimit(ctlRateLimiter, c, ctlNow)
               IN  /\ ctlRateLimiter' = r.limiter
                   /\ IF r.err # NoErr
                      THEN /\ ctlConn' = [ctlConn EXCEPT !.state = "closed"]
                           /\ ctlLast' = [event |-> input, limited |-> TRUE,
                                          dispatched |-> FALSE, response |-> "error"]
                           /\ UNCHANGED ctlWindow
                      ELSE /\ ctlWindow' = [ctlWindow EXCEPT !.now = @ + 1]
                           /\ UNCHANGED ctlConn
                           /\ ctlLast' = IF input = "badjson"
                                         THEN [event |-> input, limited |-> FALSE,
                                               dispatched |-> FALSE, response |-> "error"]
                                         ELSE [event |-> input, limited |-> FALSE,
                                               dispatched |-> TRUE, response |-> "result"]
    /\ UNCHANGED <<ctlPlatform, ctlNow>>
    /\ CtlFrame

\* a minute passes
CTL_Tick ==
    /\ ctlNow < MaxCtlClock
    /\ ctlNow' = ctlNow + 1
    /\ ctlWindow' = [prev |-> ctlWindow.now, now |-> 0]
    /\ UNCHANGED <<ctlPlatform, ctlConn, ctlRateLimiter, ctlHandled, ctlLast>>
    /\ CtlFrame

CtlNext ==
    \/ CTL_Accept
    \/ CTL_Request
    \/ CTL_Tick

SpecCtlsock == CtlInit /\ [][CtlNext]_vars

----------------------------------------------------------------------------
(* contentenc: MergeBlocks *)

\* copy(dst, src): dst with its first min(len(dst), len(src)) bytes replaced
Copy(dst, src) ==
    [i \in 1..Len(dst) |-> IF i <= Len(src) THEN src[i] ELSE dst[i]]

MergeBlocks_NewLen(oldData, newData, offset) ==
    IF Len(oldData) = 0 /\ offset = 0
    THEN [panic |-> FALSE, block |-> newData]
    ELSE LET out1 == Copy(Zeros(plainBS), oldData)
             l == Len(newData)
         IN  IF offset + l > plainBS
             THEN [panic |-> TRUE, block |-> <<>>]
             ELSE LET out2 == SubSeq(out1, 1, offset)
                                  \o Copy(SubSeq(out1, offset + 1, offset + l), newData)
                                  \o SubSeq(out1, offset + l + 1, plainBS)
                  IN  [panic |-> FALSE, block |-> SubSeq(out2, 1, offset + l)]

\* MergeBlocks: a slice expression beyond the capacity of the block panics
MergeBlocks(oldData, newData, offset) ==
    IF Len(oldData) = 0 /\ offset = 0
    THEN [panic |-> FALSE, block |-> newData]
    ELSE LET out1 == Copy(Zeros(plainBS), oldData)
             l == Len(newData)
         IN  IF offset + l > plainBS
             THEN [panic |-> TRUE, block |-> <<>>]
             ELSE LET out2 == SubSeq(out1, 1, offset)
                                  \o Copy(SubSeq(out1, offset + 1, offset + l), newData)
                                  \o SubSeq(out1, offset + l + 1, plainBS)
                      outLen == Max(Len(oldData), offset + l)
                  IN  IF outLen > plainBS
                      THEN [panic |-> TRUE, block |-> <<>>]
                      ELSE [panic |-> FALSE, block |-> SubSeq(out2, 1, outLen)]

\* n bytes, none of them zero, starting at base + 1
MbData(base, n) == [i \in 1..n |-> base + i]

\* the old block: up to plainBS bytes, two fillings
MbOldData == {MbData(16, n) : n \in 0..plainBS} \cup {MbData(48, n) : n \in 1..plainBS}

\* the new data and its offset: offset + len(newData) within one block
MbInit ==
    /\ CoreIdle /\ MidIdle /\ MbOthersIdle
    /\ mbPc = "ready"
    /\ \E oldData \in MbOldData, offset \in 0..MaxBS :
          \E l \in 0..(MaxBS - offset) :
             mbArgs = [oldData |-> oldData, newData |-> MbData(32, l), offset |-> offset]
    /\ mbOut = MbNoOut

MB_MergeBlocks ==
    /\ mbPc = "ready"
    /\ mbPc' = "done"
    /\ mbOut' = MergeBlocks(mbArgs.oldData, mbArgs.newData, mbArgs.offset)
    /\ UNCHANGED mbArgs
    /\ UNCHANGED <<coreVars, midVars, restNotMb>>

MbNext == MB_MergeBlocks

SpecMerge == MbInit /\ [][MbNext]_vars

----------------------------------------------------------------------------
(* writecoalescing: a file written through one WriteBuffer, whose flush
   callback never fails *)

\* the n bytes of the k-th write
WsData(k, n) == [i \in 1..n |-> 16 * k + i]

\* below Threshold, and Threshold itself
WsLens == {1, 2, Threshold}

\* adjacent, overlapping and distant offsets
WsOffsets == {0, 1, 5}

\* NewWriteBuffer(DefaultConfig(), callback)
WsInit ==
    /\ wsPc = "open"
    /\ wsEnabled \in BOOLEAN
    /\ wsBuffer = <<>>
    /\ wsOffset = 0
    /\ wsWrites = <<>>
    /\ wsCalls = <<>>
    /\ CoreIdle /\ MidIdle /\ WsOthersIdle

WsFrame == UNCHANGED <<coreVars, midVars, restNotWs>>

\* Write(data, offset); timedOut is whether more than Config.Timeout has
\* passed since the last write
WS_Write ==
    /\ wsPc \in {"open", "flushed"}
    /\ Len(wsWrites) < MaxWsWrites
    /\ \E n \in WsLens, offset \in WsOffsets, timedOut \in BOOLEAN :
          LET data == WsData(Len(wsWrites) + 1, n)
              st   == WbState(wsBuffer, wsOffset, 0)
              now  == IF timedOut THEN wbConfig.Timeout + 1 ELSE 0
              r    == IF ~wsEnabled THEN FlushCallback(st, data, offset, TRUE)
                      ELSE Write(st, data, offset, now, AllOk)
          IN  /\ wsBuffer' = r.Buffer
              /\ wsOffset' = r.Offset
              /\ wsCalls' = wsCalls \o r.calls
              /\ wsWrites' = Append(wsWrites, [data |-> data, offset |-> offset])
    /\ wsPc' = "open"
    /\ UNCHANGED wsEnabled
    /\ WsFrame

\* Flush, and Close, which is Flush
WS_Flush ==
    /\ wsPc = "open"
    /\ LET r == flushLocked(WbState(wsBuffer, wsOffset, 0), TRUE)
       IN  /\ wsBuffer' = r.Buffer
           /\ wsCalls' = wsCalls \o r.calls
    /\ wsPc' = "flushed"
    /\ UNCHANGED <<wsEnabled, wsOffset, wsWrites>>
    /\ WsFrame

WsNext ==
    \/ WS_Write
    \/ WS_Flush

SpecWriteSeq == WsInit /\ [][WsNext]_vars

----------------------------------------------------------------------------
(* cryptocore: OptimizedBackend and SIMDOptimizedGCM *)

\* the AEAD of cipher.NewGCM as an ideal one: a ciphertext stands for the
\* nonce, plaintext and associated data it was sealed with; a nonce of
\* another length than NonceSize() panics
GCMSeal(nonce, plaintext, aData) ==
    IF Len(nonce) # gcmNonceSize
    THEN [panic |-> TRUE, ct |-> <<>>]
    ELSE [panic |-> FALSE, ct |-> [n |-> nonce, pt |-> plaintext, ad |-> aData]]

GCMOpen(nonce, ct, aData) ==
    IF Len(nonce) # gcmNonceSize
    THEN [panic |-> TRUE, pt |-> <<>>, err |-> NoErr]
    ELSE IF ct.n = nonce /\ ct.ad = aData
         THEN [panic |-> FALSE, pt |-> ct.pt, err |-> NoErr]
         ELSE [panic |-> FALSE, pt |-> <<>>, err |-> ErrAuth]

\* len(ciphertext): the plaintext and the tag
CtLen(ct) == Len(ct.pt) + AuthTagLen

\* detectAVX2() && detectAESNI()
hasSIMD(arch) == arch \in {"amd64", "arm64"}

\* sealSIMD, and the standard path of OptimizedBackend.Seal, which is the same
sealSIMD(nonce, plaintext, aData) ==
    IF Len(nonce) = IVLen /\ gcmNonceSize = 12
    THEN GCMSeal(SubSeq(nonce, 1, 12), plaintext, aData)
    ELSE GCMSeal(nonce, plaintext, aData)

\* openSIMD, and the standard path of OptimizedBackend.Open
openSIMD(nonce, ct, aData) ==
    IF Len(nonce) = IVLen /\ gcmNonceSize = 12
    THEN GCMOpen(SubSeq(nonce, 1, 12), ct, aData)
    ELSE GCMOpen(nonce, ct, aData)

\* SIMDOptimizedGCM.Seal and Open
SIMDSeal(arch, nonce, plaintext, aData) ==
    IF hasSIMD(arch) /\ Len(plaintext) >= simdMinLen
    THEN sealSIMD(nonce, plaintext, aData)
    ELSE GCMSeal(nonce, plaintext, aData)

SIMDOpen(arch, nonce, ct, aData) ==
    IF hasSIMD(arch) /\ CtLen(ct) >= simdMinLen
    THEN openSIMD(nonce, ct, aData)
    ELSE GCMOpen(nonce, ct, aData)

\* OptimizedBackend.Seal and Open
OptimizedSeal(arch, nonce, plaintext, aData) ==
    IF Len(plaintext) >= simdMinLen /\ hasSIMD(arch)
    THEN SIMDSeal(arch, nonce, plaintext, aData)
    ELSE sealSIMD(nonce, plaintext, aData)

OptimizedOpen(arch, nonce, ct, aData) ==
    IF CtLen(ct) >= simdMinLen /\ hasSIMD(arch)
    THEN SIMDOpen(arch, nonce, ct, aData)
    ELSE openSIMD(nonce, ct, aData)

\* a nonce of IVLen bytes, and the nonces that differ from it in one byte
ObNonce == [i \in 1..IVLen |-> 16 + i]

ObNonces == {ObNonce} \cup {[ObNonce EXCEPT ![p] = 0] : p \in {1, 12, 13, IVLen}}

\* a small block and one of simdMinLen bytes
ObPlains == {[i \in 1..4 |-> i], [i \in 1..simdMinLen |-> i % 256]}

ObADs == {<<1>>, <<2>>}

ObInit ==
    /\ obBackend \in {"optimized", "simd"}
    /\ obArch \in {"amd64", "arm64", "386"}
    /\ obSealed = {}
    /\ obLast = ObNoCall
    /\ CoreIdle /\ MidIdle /\ ObOthersIdle

ObFrame == UNCHANGED <<coreVars, midVars, restNotOb>>

OB_Seal ==
    /\ Cardinality(obSealed) < MaxObSeals
    /\ ~obLast.panic
    /\ \E nonce \in ObNonces, plaintext \in ObPlains :
          LET r == IF obBackend = "optimized"
                   THEN OptimizedSeal(obArch, nonce, plaintext, <<1>>)
                   ELSE SIMDSeal(obArch, nonce, plaintext, <<1>>)
          IN  /\ obSealed' = IF r.panic THEN obSealed
                             ELSE obSealed \cup {[nonce |-> nonce, ct |-> r.ct]}
              /\ obLast' = [op |-> "Seal", nonce |-> nonce, ct |-> r.ct, pt |-> plaintext,
                            err |-> NoErr, panic |-> r.panic]
    /\ UNCHANGED <<obBackend, obArch>>
    /\ ObFrame

\* Open of a ciphertext Seal has returned
OB_Open ==
    /\ ~obLast.panic
    /\ \E s \in obSealed, nonce \in ObNonces, aData \in ObADs :
          LET r == IF obBackend = "optimized"
                   THEN OptimizedOpen(obArch, nonce, s.ct, aData)
                   ELSE SIMDOpen(obArch, nonce, s.ct, aData)
          IN  obLast' = [op |-> "Open", nonce |-> nonce, ct |-> s.ct, pt |-> r.pt,
                         err |-> r.err, panic |-> r.panic]
    /\ UNCHANGED <<obBackend, obArch, obSealed>>
    /\ ObFrame

ObNext ==
    \/ OB_Seal
    \/ OB_Open

SpecOptimized == ObInit /\ [][ObNext]_vars

----------------------------------------------------------------------------
(* cryptocore: SecureZero *)

\* mem with the n bytes after index base set to zero, as far as mem reaches
ZeroFrom(mem, base, n) ==
    [i \in 1..Len(mem) |-> IF i > base /\ i <= base + n THEN 0 ELSE mem[i]]

\* SecureZero(buf): the loop over buf, then the store of an array of
\* zeroArrayLen bytes at &buf[0]. The store runs over whatever follows buf;
\* unmapped is whether it meets memory that is not mapped or not writable,
\* which ends the process
SecureZero(mem, base, len, unmapped) ==
    IF len = 0 THEN [mem |-> mem, fault |-> FALSE]
    ELSE LET looped == ZeroFrom(mem, base, len)
         IN  [mem |-> ZeroFrom(looped, base, zeroArrayLen), fault |-> unmapped]

\* memory holding no zero byte, and a slice of it
SzInit ==
    /\ szPc = "ready"
    /\ szMem \in [1..MaxMem -> {1, 2}]
    /\ szPre = szMem
    /\ \E base \in 0..MaxMem :
          \E len \in 0..(MaxMem - base) :
             szBuf = [base |-> base, len |-> len]
    /\ CoreIdle /\ MidIdle /\ SzOthersIdle

SZ_SecureZero ==
    /\ szPc = "ready"
    /\ \E unmapped \in BOOLEAN :
          LET r == SecureZero(szMem, szBuf.base, szBuf.len, unmapped)
          IN  /\ szMem' = r.mem
              /\ szPc' = IF r.fault THEN "fault" ELSE "done"
    /\ UNCHANGED <<szPre, szBuf>>
    /\ UNCHANGED <<coreVars, midVars, restNotSz>>

SzNext == SZ_SecureZero

SpecSecureZero == SzInit /\ [][SzNext]_vars

----------------------------------------------------------------------------
(* Properties of one block *)

\* the block as EncryptBlock returned it
SealedBlocks == {r.nonce \o r.ct : r \in sealed}

\* C4: a sealed block decrypted under a block number or file ID other than
\* the one it was encrypted with gives an authentication error and no
\* plaintext.
C4_MovedBlockFailsAuth ==
    (bpc = "opened" /\ bTamper = "moved" /\ bCt # <<>>)
        => (bRes.err = ErrAuth /\ bRes.pt = <<>>)

C4_Witness ==
    /\ bpc = "opened" /\ bTamper = "moved" /\ bCt \in SealedBlocks
    /\ dBlockNo = bBlockNo /\ dFileID # bFileID /\ dFileID # NilFileID
    /\ bFileID # NilFileID
    /\ bRes.err = ErrAuth

\* C5: a sealed block with any single bit inverted, in the nonce, the body
\* or the tag, gives an authentication error and no plaintext.
C5_BitFlipFailsAuth ==
    (bpc = "opened" /\ bTamper = "flip")
        => (bRes.err = ErrAuth /\ bRes.pt = <<>>)

C5_Witness ==
    /\ bpc = "opened" /\ bTamper = "flip" /\ bRes.err = ErrAuth
    /\ \E r \in sealed : r.nonce # Slice(bCt, 0, IVLen) /\ r.ct = Slice(bCt, IVLen, Len(bCt))

\* C6: the all-zero block of full cipher block length decrypts without
\* error to plainBS zero bytes whatever the key, block number and file ID;
\* any other non-empty block yields plaintext only if the AEAD has verified
\* it, i.e. it is a block sealed under this key and this associated data.
C6_HolePassthrough ==
    /\ (bpc = "opened" /\ bCt = Zeros(cipherBS))
          => (bRes.err = NoErr /\ bRes.pt = Zeros(plainBS))
    /\ (bpc = "opened" /\ bCt # <<>> /\ bCt # Zeros(cipherBS) /\ bRes.err = NoErr)
          => \E r \in sealed :
                /\ r.key = aeadKey
                /\ r.nonce \o r.ct = bCt
                /\ r.ad = bRes.ad
                /\ bRes.pt = bPlain

C6_Witness ==
    /\ bpc = "opened" /\ bCt = Zeros(cipherBS) /\ bRes.pt = Zeros(plainBS)
    /\ aeadKey = 2 /\ dBlockNo = 256 /\ dFileID = FileID(2)

\* C7 as claimed: every block shorter than the nonce, and every block with an
\* all-zero nonce except the hole block, gives an error.
C7_ShortOrZeroNonceIsError ==
    bpc = "opened" =>
        /\ Len(bCt) < IVLen => bRes.err # NoErr
        /\ (Len(bCt) >= IVLen /\ Slice(bCt, 0, IVLen) = Zeros(IVLen)
               /\ bCt # Zeros(cipherBS)) => bRes.err # NoErr

\* C7, amended: every NON-EMPTY block shorter than the nonce gives the error
\* "block is too short", every block with an all-zero nonce except the hole
\* block gives the error "all-zero nonce", both without plaintext; the empty
\* block decrypts to the empty plaintext without error.
C7_NonEmptyShortOrZeroNonceIsError ==
    bpc = "opened" =>
        /\ (0 < Len(bCt) /\ Len(bCt) < IVLen)
              => (bRes.err = ErrShort /\ bRes.pt = <<>>)
        /\ (Len(bCt) >= IVLen /\ Slice(bCt, 0, IVLen) = Zeros(IVLen)
               /\ bCt # Zeros(cipherBS))
              => (bRes.err = ErrZeroNonce /\ bRes.pt = <<>>)
        /\ Len(bCt) = 0 => (bRes.err = NoErr /\ bRes.pt = <<>>)

C7_Witness ==
    /\ bpc = "opened" /\ bTamper = "zeros"
    /\ 0 < Len(bCt) /\ Len(bCt) < IVLen
    /\ bRes.err = ErrShort

RECURSIVE ShiftRight8(_, _)
ShiftRight8(v, k) == IF k = 0 THEN v ELSE ShiftRight8(v \div 256, k - 1)

\* every associated data the AEAD was given: by Seal, and by the last Open
ADsGiven ==
    {[ad |-> r.ad, blockNo |-> bBlockNo, fileID |-> bFileID] : r \in sealed}
    \cup (IF bRes.ad # <<>>
          THEN {[ad |-> bRes.ad, blockNo |-> dBlockNo, fileID |-> dFileID]}
          ELSE {})

ADBlockNos == BlockNos \cup {255, 257, 65536, 16777216, 2147483647}

\* C8 as claimed: the associated data of every block is exactly 24 bytes.
C8_ADIs24Bytes == \A g \in ADsGiven : Len(g.ad) = 24

\* C8, amended: the associated data is the block number as 8 big-endian
\* bytes followed by the file ID: 24 bytes when a 16-byte file ID is given,
\* the 8 bytes of the block number alone when the file ID is nil; distinct
\* (block number, file ID) pairs give distinct associated data.
C8_ADLayout ==
    \A g \in ADsGiven :
        /\ Len(g.ad) = 8 + Len(g.fileID)
        /\ Len(g.fileID) = 16 => Len(g.ad) = 24
        /\ \A i \in 1..8 : g.ad[i] = ShiftRight8(g.blockNo, 8 - i) % 256
        /\ \A i \in 1..Len(g.fileID) : g.ad[8 + i] = g.fileID[i]
        /\ \A b \in ADBlockNos, f \in FileIDs :
              concatAD(b, f) = g.ad => (b = g.blockNo /\ f = g.fileID)

C8_Witness ==
    /\ bpc = "opened" /\ bRes.ad # <<>> /\ Len(bRes.ad) = 24
    /\ dBlockNo = 256 /\ bRes.ad[7] = 1 /\ bRes.ad[8] = 0
    /\ bRes.ad[9] = dFileID[1]

----------------------------------------------------------------------------
(* Properties of a block group *)

\* C1: an unmodified group of any length, short or ragged included, decrypts
\* to exactly the plaintext that was encrypted, with no error, in every
\* dispatch mode.
C1_RoundTrip ==
    (gpc = "done" /\ gTampered = {}) => (gRes.err = NoErr /\ gRes.pt = gPlain)

\* what DecryptBlock makes of chunk j of the stored ciphertext
ChunkResult(j) ==
    DecryptBlock(CipherBlock(ciphertext, j), gFirstBlockNo + j, gFileID)

\* the blocks DecryptBlocks hands to DecryptBlock and that fail there
FailingBlocks ==
    {j \in 0..(BlockCount(ciphertext) - 1) : ChunkResult(j).err # NoErr}

LowestFailingBlock == CHOOSE j \in FailingBlocks : \A k \in FailingBlocks : j <= k

\* C2: when more than one block of a group fails, the error DecryptBlocks
\* returns is the one of the failing block with the lowest block number, in
\* every interleaving of the workers.
C2_LowestFailingBlockWins ==
    (gpc = "done" /\ gMode # "none" /\ Cardinality(FailingBlocks) > 1)
        => gRes.err = ChunkResult(LowestFailingBlock).err

----------------------------------------------------------------------------
(* Properties of the parallel driver *)

\* max_workers of the driver in use
DrvMaxWorkers == IF drvImpl = "cpuaware" THEN MaxParallelWorkers ELSE PlainMaxParallelWorkers

\* C10 as stated: in parallel mode W = min(max_workers, cpus, group size) with
\* max_workers at most 16, so W exceeds neither the CPUs nor the blocks.
C10_WorkersMinOfCapCpusBlocks ==
    (drvPc = "running" /\ drvWorkers > 0) =>
        /\ DrvMaxWorkers <= 16
        /\ drvWorkers = Min(DrvMaxWorkers, Min(drvCPU, drvN))
        /\ drvWorkers <= drvCPU
        /\ drvWorkers <= drvN

\* the CPU figure the worker count starts from: the CPU-aware driver scales
\* the number of CPUs by 1.5, rounding down
DrvCPUBudget == IF drvImpl = "cpuaware" THEN (3 * drvCPU) \div 2 ELSE drvCPU

\* C10, amended: in parallel mode W = min(max_workers, c, group size), where
\* c is the number of CPUs on the plain driver and floor(1.5 * CPUs) on the
\* CPU-aware driver, and max_workers is 8 resp. 16; W never exceeds 16 nor
\* the number of blocks, and exceeds the number of CPUs only on the CPU-aware
\* driver.
C10_WorkersMinOfCapBudgetBlocks ==
    (drvPc = "running" /\ drvWorkers > 0) =>
        /\ DrvMaxWorkers <= 16
        /\ drvWorkers = Min(DrvMaxWorkers, Min(DrvCPUBudget, drvN))
        /\ drvWorkers <= 16
        /\ drvWorkers <= drvN
        /\ drvWorkers = Len(drvShards)
        /\ drvImpl = "plain" => drvWorkers <= drvCPU

\* the CPU-aware driver started more workers than there are CPUs
C10_Witness ==
    /\ drvPc = "running" /\ drvImpl = "cpuaware"
    /\ drvWorkers > drvCPU /\ drvWorkers < drvN /\ drvWg = drvWorkers

----------------------------------------------------------------------------
(* Properties of key derivation *)

----------------------------------------------------------------------------
(* Properties of the parallel driver: shards, join, mode *)

\* the ranges processFunc was called with follow each other without gap or
\* overlap from 0 to n
IsPartition(ranges, n) ==
    /\ Len(ranges) >= 1
    /\ ranges[1][1] = 0
    /\ ranges[Len(ranges)][2] = n
    /\ \A w \in 1..Len(ranges) : ranges[w][1] <= ranges[w][2]
    /\ \A w \in 1..(Len(ranges) - 1) : ranges[w][2] = ranges[w + 1][1]
    /\ \A b \in 0..(n - 1) :
          Cardinality({w \in 1..Len(ranges) : ranges[w][1] <= b /\ b < ranges[w][2]}) = 1

\* C11: for every block count and every worker count the ranges handed to
\* the worker function are contiguous, pairwise disjoint and cover
\* [0, blockCount) exactly, so every block is processed exactly once; in
\* parallel mode every worker has at least one block.
C11_ShardsPartitionBlocks ==
    drvPc = "running" =>
        /\ IsPartition(drvShards, drvN)
        /\ drvMode = "parallel" =>
              /\ Len(drvShards) = drvWorkers
              /\ \A w \in 1..Len(drvShards) : drvShards[w][1] < drvShards[w][2]

\* a parallel call whose block count is no multiple of its worker count
C11_Witness ==
    /\ drvPc = "running" /\ drvMode = "parallel" /\ drvCall = "ProcessBlocksParallel"
    /\ drvWorkers > 2 /\ drvN % drvWorkers # 0
    /\ drvShards[drvWorkers][2] - drvShards[drvWorkers][1] > drvN \div drvWorkers

\* C12: when the driver returns, every worker it started has finished: the
\* wait group is back at zero, so no goroutine of the call is still running
\* and none outlives it.
C12_WorkersJoinedAtReturn ==
    [][(drvPc = "running" /\ drvPc' = "idle") => (drvWg = 0 /\ drvWg' = 0)]_vars

\* a parallel call with several workers has returned
C12_Witness ==
    /\ drvPc = "idle" /\ drvCall = "ProcessBlocksParallelWithResult" /\ drvMode = "parallel"
    /\ drvWorkers > 2 /\ drvWg = 0

----------------------------------------------------------------------------
(* Properties of the block group: pool buffers *)

\* C14: whenever DecryptBlocks returns an error, every buffer taken from the
\* block pool and the request pool during the call has been put back
C14_BuffersReturnedOnError ==
    (gpc = "done" /\ gRes.err \notin {NoErr, "none"}) => poolOut = NoPoolOut

----------------------------------------------------------------------------
(* Properties of filename authentication *)

\* C15: with filename authentication enabled, VerifyFilename returns an error
\* for every name that differs from an authenticated name in a character of
\* the MAC suffix or of the name part, and for every name without MAC suffix
C15_TamperedNameRejected ==
    (faPc = "verified" /\ faEnabled /\ faTamper # "none" /\ faIn # faAuth)
        => faRes.err # NoErr

\* C16: with filename authentication enabled, VerifyFilename of
\* AuthenticateFilename(n) returns n without error, also when n contains '.'
C16_RoundTrip ==
    (faPc = "verified" /\ faEnabled /\ faTamper = "none")
        => faRes = [name |-> faName, err |-> NoErr]

C16_Witness ==
    /\ faPc = "verified" /\ faEnabled /\ faTamper = "none"
    /\ \E i \in 1..Len(faName) : faName[i] = FilenameAuthSeparator
    /\ Len(faName) = MaxNameLen
    /\ faName[Len(faName)] = FilenameAuthSeparator
    /\ Len(faAuth) = Len(faName) + 1 + 44
    /\ faRes = [name |-> faName, err |-> NoErr]

\* C17: with filename authentication disabled, AuthenticateFilename and
\* VerifyFilename return their input unchanged and never an error
C17_DisabledIsIdentity ==
    ~faEnabled =>
        /\ faPc \in {"authenticated", "tampered", "verified"} => faAuth = faName
        /\ faPc = "verified" => faRes = [name |-> faIn, err |-> NoErr]

C17_Witness ==
    /\ ~faEnabled /\ faPc = "verified" /\ faTamper = "name"
    /\ Len(faIn) = MaxNameLen /\ faIn # faName /\ faAuth = faName
    /\ \E i \in 1..Len(faIn) : faIn[i] = FilenameAuthSeparator
    /\ faRes = [name |-> faIn, err |-> NoErr]

----------------------------------------------------------------------------
(* Properties of the config store *)

\* C18: a failure or a crash before the rename has completed leaves the
\* previous envelope at the destination, and the destination never holds
\* anything but the whole previous or the whole new envelope
C18_OldEnvelopeUntilRename ==
    cfgPc # "off" =>
        /\ cfgDest \in {cfgOld, cfgNew}
        /\ ~cfgRenamed => cfgDest = cfgOld

C18_Witness ==
    /\ cfgPc = "crashed" /\ cfgAt = "writing" /\ ~cfgRenamed
    /\ Len(cfgTmp) > 0 /\ Len(cfgTmp) < Len(cfgNew)
    /\ cfgDest = cfgOld

----------------------------------------------------------------------------
(* Properties of EncryptBlock and EncryptBlockNonce *)

\* C19: a caller-chosen nonce is accepted only under the SIV backend; under
\* any other backend EncryptBlockNonce aborts and produces no ciphertext;
\* EncryptBlock draws a new nonce from the generator for every block
C19_CallerNonceOnlyWithSIV ==
    /\ \A i \in 1..Len(encCalls) :
          encCalls[i].fn = "EncryptBlockNonce" =>
              /\ encCalls[i].panic = NoPanic => AEADBackend = BackendAESSIV
              /\ AEADBackend # BackendAESSIV =>
                    /\ encCalls[i].panic = PanicSIVOnly
                    /\ encCalls[i].out = <<>>
                    /\ encPc = "panicked"
                    /\ \A r \in sealed : r.nonce # encCalls[i].nonce
                                          \/ \E k \in 1..(i - 1) :
                                                /\ encCalls[k].fn = "EncryptBlock"
                                                /\ encCalls[k].nonce = r.nonce
    /\ \A i \in 1..Len(encCalls) :
          encCalls[i].fn = "EncryptBlock" =>
              /\ encCalls[i].panic = NoPanic
              /\ \A k \in 1..(i - 1) :
                    encCalls[k].fn = "EncryptBlock" => encCalls[k].nonce # encCalls[i].nonce
              /\ Len(encCalls[i].pt) > 0 =>
                    Slice(encCalls[i].out, 0, IVLen) = encCalls[i].nonce

C19_Witness ==
    /\ encPc = "panicked" /\ AEADBackend = BackendGoGCM
    /\ Len(encCalls) = 3
    /\ encCalls[1].fn = "EncryptBlock" /\ Len(encCalls[1].pt) > 0
    /\ encCalls[2].fn = "EncryptBlock" /\ encCalls[2].pt = encCalls[1].pt
    /\ encCalls[2].out # encCalls[1].out
    /\ encCalls[3].fn = "EncryptBlockNonce" /\ encCalls[3].nonce = encCalls[1].nonce
    /\ Len(encCalls[3].pt) > 0 /\ encCalls[3].out = <<>>

----------------------------------------------------------------------------
(* Properties of the write buffer *)

WbSmall == Len(wbArg.data) < wbConfig.Threshold

WbFits == Len(wbPre.Buffer) + Len(wbArg.data) <= wbConfig.MaxSize

WbPending == Len(wbPre.Buffer) > 0

WbPendingCall == [data |-> wbPre.Buffer, offset |-> wbPre.Offset]

WbNewCall == [data |-> wbArg.data, offset |-> wbArg.offset]

\* C20 as stated: with coalescing enabled, a Write below Threshold that fits
\* the buffer invokes no callback, and a Write of at least Threshold bytes
\* with data pending invokes the callback with the pending data at the
\* pending offset, then with the new data at its own offset, and leaves the
\* buffer empty (the callbacks succeeding)
C20_SmallBufferedLargeFlushesBoth ==
    (wbPc = "written" /\ wbEnabled) =>
        /\ (WbSmall /\ WbFits) => wbCalls = <<>>
        /\ (~WbSmall /\ WbPending /\ wbRet = NoErr) =>
              /\ wbCalls = <<WbPendingCall, WbNewCall>>
              /\ wbBuffer = <<>>

\* C20 as the code has it: the small Write invokes no callback unless data is
\* pending for longer than Timeout, in which case the pending data is flushed
\* first; the large Write passes the new data on only if the flush of the
\* pending data succeeded
C20_SmallBufferedUnlessTimedOut ==
    (wbPc = "written" /\ wbEnabled) =>
        /\ (WbSmall /\ WbFits /\ ~(WbPending /\ wbPre.timedOut)) =>
              /\ wbCalls = <<>>
              /\ wbRet = NoErr
              /\ wbBuffer = wbPre.Buffer \o wbArg.data
        /\ (WbSmall /\ WbFits /\ WbPending /\ wbPre.timedOut) =>
              /\ wbCalls = <<WbPendingCall>>
              /\ wbBuffer = IF wbRet = NoErr THEN wbArg.data ELSE <<>>
        /\ (~WbSmall /\ WbPending) =>
              /\ wbBuffer = <<>>
              /\ IF wbRet = NoErr \/ Len(wbCalls) = 2
                 THEN wbCalls = <<WbPendingCall, WbNewCall>>
                 ELSE wbCalls = <<WbPendingCall>>

C20_Witness ==
    /\ wbPc = "written" /\ wbEnabled /\ ~WbSmall /\ WbPending
    /\ Len(wbPre.Buffer) > 1 /\ wbPre.Offset # wbArg.offset
    /\ wbCalls = <<WbPendingCall, WbNewCall>>
    /\ wbRet = NoErr /\ wbBuffer = <<>>

\* C21: in every reachable state of a WriteBuffer the number of buffered bytes
\* is at most Config.MaxSize
C21_BufferWithinMaxSize ==
    (wbPc # "off" /\ wbEnabled) => Len(wbBuffer) <= wbConfig.MaxSize

\* C22: data left in the buffer by a small Write is flushed once
\* Config.Timeout has elapsed since the last write, without any further
\* Write, Flush or Close
C22_PendingDataFlushedAfterTimeout ==
    (wbEnabled /\ Len(wbBuffer) > 0 /\ wbNow - wbLastWriteTime > wbConfig.Timeout)
        ~> (Len(wbBuffer) = 0)

\* C34: when the flush callback returns an error, the Write or Flush that
\* invoked it returns the error and leaves the buffer empty: the data handed
\* to the failed callback is not kept, and a Flush that follows invokes no
\* callback
C34_FailedFlushDropsData ==
    /\ [](wbRet = ErrFlush => (wbBuffer = <<>> /\ wbCalls # <<>>))
    /\ [][(wbRet = ErrFlush /\ wbPc' = "flushed" /\ wbNow' = wbNow)
             => (wbCalls' = <<>> /\ wbRet' = NoErr /\ wbBuffer' = <<>>)]_vars

C34_Witness ==
    /\ wbPc = "written" /\ wbEnabled
    /\ wbRet = ErrFlush
    /\ Len(wbPre.Buffer) > 1
    /\ wbCalls = <<WbPendingCall>>
    /\ wbBuffer = <<>>

----------------------------------------------------------------------------
(* Properties of the write buffer manager *)

\* C23: once Close and every Write that ran concurrently with it have
\* returned without error, every byte accepted by a Write has been passed to
\* the flush callback and none remains in any buffer
C23_CloseFlushesEverything ==
    (/\ mgrPc = "closed"
     /\ \A w \in MgrWriterIds :
           mgrWriters[w].pc = "idle" \/ (mgrWriters[w].pc = "done" /\ mgrWriters[w].ret = NoErr))
        => /\ mgrStats.flushed = mgrStats.accepted
           /\ \A b \in 1..Len(mgrHeap) : mgrHeap[b].Buffer = <<>>

\* C35: under any interleaving of concurrent GetBuffer and Write calls for
\* one file ID, no Close intervening, exactly one WriteBuffer is created for
\* the file ID and every caller receives that buffer
C35_OneBufferPerFile ==
    mgrPc = "open" =>
        /\ Len(mgrHeap) = Cardinality({f \in MgrFiles : mgrBuffers[f] # 0})
        /\ \A w \in MgrWriterIds :
              mgrWriters[w].pc \in {"haveBuffer", "done"}
                  => mgrWriters[w].buf = mgrBuffers[mgrWriters[w].fileID]

C35_Witness ==
    /\ mgrPc = "open"
    /\ \E w1, w2 \in MgrWriterIds :
          /\ w1 # w2
          /\ mgrWriters[w1].fileID = mgrWriters[w2].fileID
          /\ mgrWriters[w1].missed /\ mgrWriters[w2].missed
          /\ mgrWriters[w1].pc \in {"haveBuffer", "done"}
          /\ mgrWriters[w2].pc \in {"haveBuffer", "done"}
          /\ mgrWriters[w1].buf = mgrWriters[w2].buf
          /\ mgrWriters[w1].buf # 0

----------------------------------------------------------------------------
(* Properties of the adaptive prefetcher *)

\* C24: Read(want) returns exactly want bytes and never aborts, for every
\* want up to the minimum prefetch size, however readers, the refill worker,
\* SetPrefetchSize and the periodic adjustment interleave
C24_ReadNeverAborts ==
    /\ apPanic = "none"
    /\ \A r \in ApReaderIds :
          /\ apReaders[r].pc # "panic"
          /\ apReaders[r].pc = "done" => apReaders[r].ret = apReaders[r].want

\* C25: the prefetch size is always within [MinPrefetchSize, MaxPrefetchSize];
\* SetPrefetchSize stores the requested size clamped into the range, and an
\* adjustment stores the double or the half of the previous size, clamped
C25_PrefetchSizeInRange ==
    apProfilingWorker # "off" =>
        /\ apPrefetchSize >= MinPrefetchSize
        /\ apPrefetchSize <= MaxPrefetchSize
        /\ apLast.op = "set" =>
              apPrefetchSize = Max(MinPrefetchSize, Min(MaxPrefetchSize, apLast.arg))
        /\ apLast.op = "adjust" =>
              apPrefetchSize \in {Min(MaxPrefetchSize, apLast.arg * 2),
                                  Max(MinPrefetchSize, apLast.arg \div 2)}

C25_Witness ==
    /\ apLast.op = "set"
    /\ apLast.arg > MaxPrefetchSize
    /\ apPrefetchSize = MaxPrefetchSize

\* C26: after Close the refill worker and the profiling worker both
\* terminate in the end, even if no further Read is issued
C26_WorkersTerminateAfterClose ==
    (apStop /\ apPanic = "none")
        ~> (apPanic # "none" \/ (apRefillWorker.pc = "done" /\ apProfilingWorker = "done"))

----------------------------------------------------------------------------
(* Properties of memprotect *)

\* C27: LockMemory returns true only if the region is locked in memory
\* afterwards, and false if protection is disabled, the buffer is empty, the
\* platform cannot lock or the locking system call failed
C27_TrueOnlyIfLocked ==
    mpCall.op = "LockMemory" =>
        /\ mpCall.ret => mpCall.ptr \in mpKernelLocked
        /\ (~mpEnabled \/ mpCall.len = 0 \/ mpPlatform # "linux" \/ ~mpCall.mlockOk)
              => ~mpCall.ret

----------------------------------------------------------------------------
(* Properties of the control socket server *)

\* C28: the server reads and dispatches no request on a connection unless
\* the peer's UID equals its own; a connection of another UID, or one whose
\* credentials cannot be obtained, is closed before any request is handled
C28_OnlySameUIDServed ==
    (ctlConn.state = "open" \/ ctlLast.event \in CtlInputs)
        => (ctlConn.peerUID = ourUID /\ ctlConn.credOk)

\* C29: per client identifier at most maxRequestsPerMinute requests pass
\* within any one minute; a request over the limit gets an error response, is
\* not dispatched, and its connection is closed
C29_RateLimited ==
    /\ ctlWindow.prev + ctlWindow.now <= maxRequestsPerMinute
    /\ ctlLast.limited =>
          /\ ctlLast.response = "error"
          /\ ~ctlLast.dispatched
          /\ ctlConn.state = "closed"

C29_Witness ==
    /\ ctlLast.limited
    /\ ctlConn.state = "closed"
    /\ ctlWindow.prev + ctlWindow.now = maxRequestsPerMinute
    /\ ctlWindow.prev > 0

----------------------------------------------------------------------------
(* Properties of MergeBlocks *)

\* C30: MergeBlocks(old, new, offset) with offset + len(new) within one block
\* returns a block of length max(len(old), offset + len(new)) whose bytes in
\* [offset, offset + len(new)) are new, whose other bytes below len(old) are
\* old, and whose bytes between len(old) and offset are zero
C30_MergeBlocks ==
    mbPc = "done" =>
        LET old == mbArgs.oldData
            new == mbArgs.newData
            off == mbArgs.offset
            out == mbOut.block
        IN  /\ ~mbOut.panic
            /\ Len(out) = Max(Len(old), off + Len(new))
            /\ \A i \in 1..Len(out) :
                  out[i] = IF i > off /\ i <= off + Len(new) THEN new[i - off]
                           ELSE IF i <= Len(old) THEN old[i]
                                ELSE 0

C30_Witness ==
    /\ mbPc = "done"
    /\ Len(mbArgs.oldData) > 0
    /\ Len(mbArgs.oldData) < mbArgs.offset
    /\ Len(mbArgs.newData) > 0
    /\ Len(mbOut.block) = plainBS

----------------------------------------------------------------------------
(* Properties of the block group: the three decrypt paths *)

\* C31: for the same ciphertext, first block number and file ID, the batch
\* and the parallel decrypt path fail exactly when the serial path fails and
\* return the plaintext the serial path returns when it succeeds, a partial
\* last block and a block that fails authentication included
C31_DecryptPathsAgree ==
    (gpc = "done" /\ gMode \in {"batch", "parallel"})
        => LET serial == decryptBlocksSequential(ciphertext, gFirstBlockNo, gFileID)
           IN  /\ (gRes.err = NoErr) <=> (serial.err = NoErr)
               /\ serial.err = NoErr => gRes.pt = serial.pt

----------------------------------------------------------------------------
(* Properties of a file written through one WriteBuffer *)

\* the file after data is written at offset, a hole reading as zero
WriteAt(file, data, offset) ==
    [i \in 1..Max(Len(file), offset + Len(data)) |->
        IF i > offset /\ i <= offset + Len(data) THEN data[i - offset]
        ELSE IF i <= Len(file) THEN file[i]
             ELSE 0]

\* the file after the (data, offset) pairs are written in order
RECURSIVE FileAfter(_)
FileAfter(pairs) ==
    IF pairs = <<>> THEN <<>>
    ELSE LET last == pairs[Len(pairs)]
         IN  WriteAt(FileAfter(SubSeq(pairs, 1, Len(pairs) - 1)), last.data, last.offset)

\* the data of the pairs, concatenated
DataOf(pairs) == Concat([i \in 1..Len(pairs) |-> pairs[i].data])

\* C32: for every sequence of Writes to one WriteBuffer, non-adjacent and
\* overlapping offsets included, the pairs passed to the flush callback,
\* applied in call order, give after a final Flush the file that the Writes
\* give when each is applied at its own offset in issue order
C32_FlushedFileEqualsDirectWrites ==
    wsPc = "flushed" => FileAfter(wsCalls) = FileAfter(wsWrites)


\* C33: the callback never failing and the configuration unchanged, every
\* byte accepted by Write is passed to the callback exactly once and in issue
\* order: once Flush or Close has returned, the payloads of the callbacks,
\* concatenated, are the data of the Writes, concatenated, and the buffer is
\* empty
C33_EveryByteOnceInOrder ==
    wsPc = "flushed" =>
        /\ DataOf(wsCalls) = DataOf(wsWrites)
        /\ wsBuffer = <<>>

C33_Witness ==
    /\ wsPc = "flushed" /\ wsEnabled
    /\ Len(wsWrites) = MaxWsWrites
    /\ Len(wsCalls) = 2
    /\ Len(wsCalls[1].data) > Len(wsWrites[1].data)
    /\ wsBuffer = <<>>
    /\ DataOf(wsCalls) = DataOf(wsWrites)


----------------------------------------------------------------------------
(* Properties of the rate limiter of the control socket server *)

\* C36: a client that sends at most maxRequestsPerMinute requests in every
\* one-minute window is never refused by the rate limiter, however long it
\* keeps sending: a request is refused only if maxRequestsPerMinute requests
\* of the client have passed in the previous and the current minute
C36_RefusedOnlyOverLimit ==
    [][(ctlHandled' = ctlHandled + 1 /\ ctlLast'.limited)
         => ctlWindow.prev + ctlWindow.now >= maxRequestsPerMinute]_vars

----------------------------------------------------------------------------
(* Properties of the optimized AEAD backends *)

\* C37: Open succeeds only with the exact nonce that was passed to Seal: two
\* different nonces of IVLen bytes never select the same nonce of the
\* underlying cipher, and a nonce changed in any byte makes Open fail
C37_OpenOnlyWithSealNonce ==
    (obLast.op = "Open" /\ ~obLast.panic /\ obLast.err = NoErr)
        => \E s \in obSealed : s.ct = obLast.ct /\ s.nonce = obLast.nonce


----------------------------------------------------------------------------
(* Properties of filename authentication: Wipe *)

\* C38: in every state reachable through New with authentication enabled,
\* AuthenticateFilename, VerifyFilename and Wipe, VerifyFilename accepts a
\* name only if its MAC was computed with the key derived from the master
\* key; after Wipe no name is accepted on the basis of any other key
C38_AcceptedOnlyUnderDerivedKey ==
    (faPc = "verified" /\ faEnabled /\ faRes.err = NoErr)
        => \E masterKey \in FaMasterKeys :
              DecodeString(splitAuthenticatedName(faIn)[2]).bytes
                  = calculateMAC(deriveFilenameMACKey(masterKey), faRes.name)

----------------------------------------------------------------------------
(* Properties of SecureZero *)

\* C39: SecureZero(buf) sets exactly the len(buf) bytes of buf to zero and
\* writes to no memory outside buf; on an empty buf it does nothing
C39_ZeroesExactlyBuf ==
    szPc \in {"done", "fault"} =>
        /\ szPc = "done"
        /\ \A i \in 1..Len(szMem) :
              szMem[i] = IF i > szBuf.base /\ i <= szBuf.base + szBuf.len THEN 0
                         ELSE szPre[i]

====
